---------------------------- MODULE Spec2Model ----------------------------
(***************************************************************************)
(* A model of the Syzygy tablebase probe code of src/syzygy/tbprobe.cpp    *)
(* (standard chess build, CHESS_VARIANT):                                  *)
(*   - the catalog TBTables: the Robin Hood hash table filled by add()     *)
(*     at init time and read by get() at probe time;                       *)
(*   - the lazy mapper mapped(): TBFile::map, set() and the ready flag,    *)
(*     run by several probing threads;                                     *)
(*   - the probe driver: probe_table, search, probe_wdl and probe_dtz.     *)
(* Each part has a specification of its own over the same variables; a     *)
(* specification leaves the variables of the other parts unchanged.        *)
(***************************************************************************)
EXTENDS Integers, Sequences, FiniteSets, TLC

VARIABLES
    \* ---- the catalog (class TBTables) and the process
    hashTable,       \* Entry hashTable[Size + Overflow]
    wdlTable,        \* std::deque<TBTable<WDL>>; dtzTable[i] is built from wdlTable[i]
    MaxCardinality,  \* Tablebases::MaxCardinality
    aborted,         \* the process has called exit(EXIT_FAILURE)
    keyPool,         \* the material keys the enumerated piece multisets hash to
    initDone,        \* Tablebases::init has returned
    tbPaths,         \* TBFile::Paths
    \* ---- one TBTable e and the threads that probe it (mapped)
    ready,           \* e.ready
    baseAddress,     \* e.baseAddress
    mapping,         \* e.mapping
    pairsData,       \* e.items, written by set()
    ekeys,           \* <<e.key, e.key2>>
    antiSwap,        \* ANTI build, pawnless antichess table whose recomputed key differs
    fileState,       \* what TBFile finds on disk for e at probe time
    mutex,           \* the static std::mutex of mapped(): its owner, or NoThread
    active,          \* the threads that probe
    pc,              \* each thread's position in probe_table / mapped
    ret,             \* each thread's return value of mapped()
    pstate,          \* each thread's ProbeState after probe_table
    calls,           \* how many probes each thread has started
    mapCount,        \* how many times the file was memory-mapped
    unmapCount,      \* how many times TBFile::unmap ran
    setCount,        \* how many times set() parsed the PairsData
    returned,        \* every value some call of mapped() has returned
    path,            \* the way each thread's last call returned
    \* ---- the positions a probe looks at, and the table files behind them
    parent,          \* the position a position is reached from by one move (0: none)
    kind,            \* that move: "capture", "pawn", "promo" or "quiet" ("root": none)
    open,            \* the position has quiet non-pawn moves the model does not follow
    inCheck,         \* pos.checkers() is not empty
    leafDtz,         \* the true distance-to-zero value of an open position
    tbState,         \* per material: the state of its two table files
    symmetric,       \* both sides have the same pieces: key == key2
    hasPawns,        \* TBTable::hasPawns
    flagStm,         \* flags & TBFlag::STM of the DTZ tables
    winPlies,        \* flags & TBFlag::WinPlies
    lossPlies,       \* flags & TBFlag::LossPlies
    dontCare,        \* the WDL tables hold a filler where a capture is best
    wdlData,         \* per position: what decompress_pairs reads in the WDL file
    dtzData,         \* per position: what decompress_pairs reads in the DTZ file
    lastWdl,         \* the last probe_wdl: position, value, ProbeState
    lastDtz,         \* the last probe_dtz: position, value, ProbeState
    \* ---- one call of root_probe or root_probe_wdl
    rootKind,        \* "dtz": root_probe, "wdl": root_probe_wdl, "none": no call yet
    rootPos,         \* the root position (0: none)
    rootAt,          \* the position on the board of the root probe
    rootTodo,        \* the root moves the loop has not reached yet
    rootResult,      \* the local ProbeState result
    rootRet,         \* "running", or the value returned: "true" or "false"
    rootDtz,         \* per root move: was it ranked, and from which dtz
    rootFailed,      \* some probe made for a root move ended with FAIL
    \* ---- the index do_probe_table computes for a position of one table
    encPhase,        \* how far the encoding of the position has come ("none": no position)
    encBoard,        \* the pieces on the board: records [sq, pc]
    encSide,         \* pos.side_to_move()
    encIdx,          \* the index idx computed last (-1: none)
    encStm,          \* the side stm whose sub-table was selected last
    encPrev,         \* the index and side computed before the last ones
    encSlot,         \* an entry of the table, as the generator numbers them (-1: none)
    \* ---- decompress_pairs looking for the block of an index
    dcPhase,         \* "none", "seek": before the sparse index is read, "walk", "done"
    dcSpan,          \* d->span
    dcBlocksNum,     \* d->blocksNum
    dcBlockLength,   \* d->blockLength[]: blocksNum entries and the padding after them
    dcTbSize,        \* the number of values of the sub-table
    dcIdx,           \* the index idx looked up
    dcBlock,         \* the local block
    dcOffset,        \* the local offset
    dcOut,           \* blockLength[] was read outside its entries
    \* ---- decompress_pairs reading the value at an offset of a block
    dcBook,          \* d->btree, d->symlen, and the symbols the block's Huffman codes decode to
    dcHuff,          \* the locals: offset, sym, the place in the block; and the value returned
    \* ---- the leading group of a table without pawns that has two unique pieces
    lead,            \* entry->variant, squares[0..1], the factor of set_groups, the branch and idx
    \* ---- the tables of the catalog as the probes find them
    lazy,            \* per table and type: ready, baseAddress, and whether mapped() tried the file
    lookup           \* the last call of probe_table: position, type, table, path through mapped()

catalogVars == <<hashTable, wdlTable, MaxCardinality, keyPool, initDone, tbPaths>>
tableVars   == <<ready, baseAddress, mapping, pairsData, ekeys, antiSwap, fileState>>
threadVars  == <<mutex, active, pc, ret, pstate, calls>>
countVars   == <<mapCount, unmapCount, setCount>>
ghostVars   == <<returned, path>>
treeVars    == <<parent, kind, open, inCheck, leafDtz>>
fileVars    == <<tbState, symmetric, hasPawns, flagStm, winPlies, lossPlies, dontCare,
                 wdlData, dtzData>>
rootVars    == <<rootKind, rootPos, rootAt, rootTodo, rootResult, rootRet, rootDtz,
                 rootFailed>>
encVars     == <<encPhase, encBoard, encSide, encIdx, encStm, encPrev, encSlot>>
decVars     == <<dcPhase, dcSpan, dcBlocksNum, dcBlockLength, dcTbSize, dcIdx, dcBlock,
                 dcOffset, dcOut>>
pairVars    == <<dcBook, dcHuff>>
codecVars   == <<encVars, decVars, pairVars, lead>>
lazyVars    == <<lazy, lookup>>
probeVars   == <<treeVars, fileVars, lastWdl, lastDtz, rootVars, codecVars, lazyVars>>

vars == <<catalogVars, aborted, tableVars, threadVars, countVars, ghostVars, probeVars>>

---------------------------------------------------------------------------
(* Bounds of the model *)

\* TBTables::Size is 1 << 12 in the source (1 << 15 with ANTI); the model
\* keeps the structure of the table and scales the number of buckets down.
Size == 8

\* Material keys are 64-bit Zobrist hashes; the model draws them from 0..MaxKey.
MaxKey == 15

\* The number of add() calls that find their WDL file.
MaxTables == 2

\* TBTables::Overflow
Overflow == 1

\* TBPIECES
TBPIECES == 7

\* The number of threads that probe, and of probes each of them makes.
NThreads == 2

MaxCalls == 2

\* The number of positions the model follows from the probed one.
NPos == 3

Keys == 0..MaxKey

---------------------------------------------------------------------------
(* TBTables: Entry, insert, get, clear, add *)

\* A null TBTable pointer, and the index of a table in the deques otherwise.
NullTable == 0

\* hashTable after memset(hashTable, 0, sizeof(hashTable))
EmptyEntry == [key |-> 0, wdl |-> NullTable, dtz |-> NullTable]

ClearedHashTable == [b \in 0..(Size + Overflow - 1) |-> EmptyEntry]

\* (uint32_t)key & (Size - 1)
HomeBucket(key) == key % Size

\* The first bucket index the loop of insert no longer visits.
InsertLimit_OffByOne == Size + Overflow

InsertLimit == Size + Overflow - 1

\* Robin Hood hashing: the carried entry takes the bucket of an element
\* whose home bucket is later than its own.
RobinHoodSwap(otherHomeBucket, homeBucket) == otherHomeBucket > homeBucket

\* The loop of insert from `bucket` on, carrying `entry` whose home bucket is
\* homeBucket. ok = FALSE is the fall out of the loop: exit(EXIT_FAILURE).
RECURSIVE InsertLoop_DropDisplaced(_, _, _, _)
InsertLoop_DropDisplaced(ht, bucket, homeBucket, entry) ==
    IF bucket >= InsertLimit
    THEN [ok |-> FALSE, ht |-> ht]
    ELSE LET other == ht[bucket] IN
         IF other.key = entry.key \/ other.wdl = NullTable
         THEN [ok |-> TRUE, ht |-> [ht EXCEPT ![bucket] = entry]]
         ELSE IF RobinHoodSwap(HomeBucket(other.key), homeBucket)
         THEN [ok |-> TRUE, ht |-> [ht EXCEPT ![bucket] = entry]]
         ELSE InsertLoop_DropDisplaced(ht, bucket + 1, homeBucket, entry)

RECURSIVE InsertLoop(_, _, _, _)
InsertLoop(ht, bucket, homeBucket, entry) ==
    IF bucket >= InsertLimit
    THEN [ok |-> FALSE, ht |-> ht]
    ELSE LET other == ht[bucket] IN
         IF other.key = entry.key \/ other.wdl = NullTable
         THEN [ok |-> TRUE, ht |-> [ht EXCEPT ![bucket] = entry]]
         ELSE IF RobinHoodSwap(HomeBucket(other.key), homeBucket)
         THEN InsertLoop([ht EXCEPT ![bucket] = entry], bucket + 1,
                         HomeBucket(other.key), other)
         ELSE InsertLoop(ht, bucket + 1, homeBucket, entry)

\* TBTables::insert(key, wdl, dtz)
Insert(ht, key, wdl, dtz) ==
    InsertLoop(ht, HomeBucket(key), HomeBucket(key),
               [key |-> key, wdl |-> wdl, dtz |-> dtz])

\* Entry::get<Type>()
EntryGet(entry, type) == IF type = "WDL" THEN entry.wdl ELSE entry.dtz

\* TBTables::get<Type>(key): the loop has no bound of its own; walking past
\* the last bucket reads outside the array.
RECURSIVE GetLoop(_, _, _, _)
GetLoop(ht, bucket, key, type) ==
    IF bucket > Size + Overflow - 1
    THEN "OutOfBounds"
    ELSE IF ht[bucket].key = key \/ EntryGet(ht[bucket], type) = NullTable
    THEN EntryGet(ht[bucket], type)
    ELSE GetLoop(ht, bucket + 1, key, type)

Get(ht, key, type) == GetLoop(ht, HomeBucket(key), key, type)

\* The keys some table of the deque was inserted under.
InsertedKeys == {wdlTable[i].key : i \in 1..Len(wdlTable)}
                \cup {wdlTable[i].key2 : i \in 1..Len(wdlTable)}

\* The table inserted under key k (material keys of different piece
\* multisets differ, so there is one).
TableOf(k) ==
    CHOOSE i \in 1..Len(wdlTable) : wdlTable[i].key = k \/ wdlTable[i].key2 = k

\* TBTables::add(variant, w, b) on the catalog cat, for a multiset of
\* `pieces` pieces whose WDL file exists or not. key and key2 are the
\* material keys pos.set() computes for the code with White and with Black
\* as the stronger side.
AddTo_AlwaysAdds(cat, pieces, fileExists, key, key2) ==
    LET n  == Len(cat.wdlTable) + 1
        i1 == Insert(cat.hashTable, key, n, n)
        i2 == Insert(i1.ht, key2, n, n)
    IN [hashTable      |-> IF i1.ok THEN i2.ht ELSE i1.ht,
        wdlTable       |-> Append(cat.wdlTable, [key |-> key, key2 |-> key2,
                                                 pieceCount |-> pieces]),
        MaxCardinality |-> IF pieces > cat.MaxCardinality
                           THEN pieces ELSE cat.MaxCardinality,
        aborted        |-> ~(i1.ok /\ i2.ok)]

AddTo(cat, pieces, fileExists, key, key2) ==
    IF ~fileExists
    THEN cat
    ELSE LET n  == Len(cat.wdlTable) + 1
             i1 == Insert(cat.hashTable, key, n, n)
             i2 == Insert(i1.ht, key2, n, n)
         IN [hashTable      |-> IF i1.ok THEN i2.ht ELSE i1.ht,
             wdlTable       |-> Append(cat.wdlTable, [key |-> key, key2 |-> key2,
                                                      pieceCount |-> pieces]),
             MaxCardinality |-> IF pieces > cat.MaxCardinality
                                THEN pieces ELSE cat.MaxCardinality,
             aborted        |-> ~(i1.ok /\ i2.ok)]

Catalog ==
    [hashTable |-> hashTable, wdlTable |-> wdlTable,
     MaxCardinality |-> MaxCardinality, aborted |-> aborted]

\* One call of add at init time.
Add(pieces, fileExists, key, key2) ==
    /\ ~aborted /\ ~initDone
    /\ Len(wdlTable) < MaxTables
    /\ key \in keyPool /\ key2 \in keyPool
    /\ key \notin InsertedKeys /\ key2 \notin InsertedKeys
    /\ UNCHANGED <<keyPool, initDone, tbPaths, tableVars, threadVars, countVars, ghostVars,
                   probeVars>>
    /\ LET cat == AddTo(Catalog, pieces, fileExists, key, key2)
       IN /\ hashTable' = cat.hashTable
          /\ wdlTable' = cat.wdlTable
          /\ MaxCardinality' = cat.MaxCardinality
          /\ aborted' = cat.aborted

\* The number of pieces of the multiset whose white-stronger key is `key`
\* (a multiset's key determines its pieces): between 3 and TBPIECES.
PiecesOf(key) == 3 + (key % (TBPIECES - 2))

\* One TBTables.add call of the loops of Tablebases::init
InitAdd ==
    \E fileExists \in BOOLEAN, key \in Keys, key2 \in Keys :
        Add(PiecesOf(key), fileExists, key, key2)

\* The values of the UCI option SyzygyPath in the model: two that switch
\* the tablebases off, and two directories.
EmptyPaths == {"", "<empty>"}
DefaultPaths == "A"
PathValues == EmptyPaths \cup {DefaultPaths, "B"}

\* TBTables::clear() and the first statements of Tablebases::init
InitCatalog ==
    /\ hashTable = ClearedHashTable
    /\ wdlTable = <<>>
    /\ MaxCardinality = 0
    /\ aborted = FALSE
    /\ initDone = FALSE
    /\ tbPaths = DefaultPaths

---------------------------------------------------------------------------
(* TBFile::map, set and mapped: one TBTable, several probing threads *)

Threads == 1..NThreads

NoThread == 0

\* nullptr, and the address mmap returns
Null == 0

MappedAddress == 1

\* What the file of the table is when a probe opens it.
\*   good      mapped and parsed
\*   badmagic  the leading 4 bytes differ from the expected magic
\*   badsize   st_size % 64 != 16
\*   mmapfail  mmap returns MAP_FAILED
\*   noopen    ::open returns -1
\*   missing   the TBFile constructor finds no file in Paths
FileStates == {"good", "badmagic", "badsize", "mmapfail", "noopen", "missing"}

\* TBTable(): ready(false), baseAddress(nullptr) for one table of the
\* catalog; tried: mapped() has looked for the file of this table.
FreshTable_Mapped == [ready |-> FALSE, baseAddress |-> MappedAddress, tried |-> FALSE]

FreshTable == [ready |-> FALSE, baseAddress |-> Null, tried |-> FALSE]

\* The WDL and the DTZ table of every slot of wdlTable and dtzTable, as the
\* constructors leave them; init adds one table per material at most.
TableSlots == 1..NPos

FreshTables == [e \in TableSlots |-> [type \in {"WDL", "DTZ"} |-> FreshTable]]

\* No call of probe_table has been made.
NoLookup == [pos |-> 0, type |-> "WDL", entry |-> NullTable, path |-> "none", result |-> "OK"]

\* TBTable(): ready(false), baseAddress(nullptr); the other fields of the
\* mapping are unset until mapped() runs.
InitTable ==
    /\ lazy = FreshTables
    /\ lookup = NoLookup
    /\ ready = FALSE
    /\ baseAddress = Null
    /\ mapping = 0
    /\ pairsData = "unset"
    /\ ekeys = <<1, 2>>
    /\ mapCount = 0 /\ unmapCount = 0 /\ setCount = 0
    /\ returned = {}

InitThreads ==
    /\ mutex = NoThread
    /\ pc = [t \in Threads |-> "idle"]
    /\ ret = [t \in Threads |-> Null]
    /\ pstate = [t \in Threads |-> "OK"]
    /\ calls = [t \in Threads |-> 0]
    /\ path = [t \in Threads |-> "none"]

Goto(t, label) == pc' = [pc EXCEPT ![t] = label]

\* mapped() returns e.baseAddress to probe_table, which fails the probe on
\* nullptr and calls do_probe_table otherwise (lines 1915-1918).
ReturnBase(t, how) ==
    /\ ret' = [ret EXCEPT ![t] = baseAddress]
    /\ returned' = returned \cup {baseAddress}
    /\ path' = [path EXCEPT ![t] = how]
    /\ pstate' = [pstate EXCEPT ![t] = IF baseAddress = Null THEN "FAIL" ELSE "OK"]
    /\ Goto(t, "done")

\* probe_table: TBTables.get found the entry; mapped(*entry, pos) is called.
Call(t) ==
    /\ ~aborted /\ initDone
    /\ Len(wdlTable) >= 1
    /\ Get(hashTable, wdlTable[1].key, "WDL") # NullTable
    /\ t \in active
    /\ pc[t] \in {"idle", "done"}
    /\ calls[t] < MaxCalls
    /\ calls' = [calls EXCEPT ![t] = @ + 1]
    /\ pstate' = [pstate EXCEPT ![t] = "OK"]
    /\ Goto(t, "load")
    /\ UNCHANGED <<probeVars, catalogVars, aborted, tableVars, countVars, ghostVars, mutex, active, ret>>

\* if (e.ready.load(std::memory_order_acquire)) return e.baseAddress;
FastPath(t) ==
    /\ ~aborted
    /\ pc[t] = "load"
    /\ IF ready
       THEN ReturnBase(t, "fast")
       ELSE Goto(t, "lock") /\ UNCHANGED <<ret, pstate, ghostVars>>
    /\ UNCHANGED <<probeVars, catalogVars, aborted, tableVars, countVars, mutex, active, calls>>

\* std::scoped_lock<std::mutex> lk(mutex);
Lock(t) ==
    /\ ~aborted
    /\ pc[t] = "lock"
    /\ mutex = NoThread
    /\ mutex' = t
    /\ Goto(t, "recheck")
    /\ UNCHANGED <<probeVars, catalogVars, aborted, tableVars, countVars, ghostVars, active, ret,
                   pstate, calls>>

\* if (e.ready.load(std::memory_order_relaxed)) return e.baseAddress;
Recheck_Skipped(t) ==
    /\ ~aborted
    /\ pc[t] = "recheck"
    /\ Goto(t, "open")
    /\ UNCHANGED <<probeVars, catalogVars, aborted, tableVars, countVars, ghostVars, mutex, active,
                   ret, pstate, calls>>

Recheck(t) ==
    /\ ~aborted
    /\ pc[t] = "recheck"
    /\ IF ready
       THEN ReturnBase(t, "recheck") /\ mutex' = NoThread
       ELSE Goto(t, "open") /\ UNCHANGED <<ret, pstate, mutex, ghostVars>>
    /\ UNCHANGED <<probeVars, catalogVars, aborted, tableVars, countVars, active, calls>>

\* TBFile file(fname + Suffixes[e.variant]); if (file.is_open()) ...
\* PawnlessSuffixes[CHESS_VARIANT] is nullptr: a missing file leaves data null.
Open(t) ==
    /\ ~aborted
    /\ pc[t] = "open"
    /\ Goto(t, IF fileState = "missing" THEN "store" ELSE "map")
    /\ UNCHANGED <<probeVars, catalogVars, aborted, tableVars, countVars, ghostVars, mutex, active,
                   ret, pstate, calls>>

\* TBFile::map up to the magic check: ::open, fstat, mmap.
Map_PublishEarly(t) ==
    /\ ~aborted
    /\ pc[t] = "map"
    /\ fileState = "good"
    /\ mapping' = 1
    /\ baseAddress' = MappedAddress
    /\ ready' = TRUE
    /\ mapCount' = mapCount + 1
    /\ Goto(t, "magic")
    /\ UNCHANGED <<probeVars, catalogVars, aborted, pairsData, ekeys, antiSwap, fileState,
                   unmapCount, setCount, ghostVars, mutex, active, ret, pstate, calls>>

Map(t) ==
    /\ ~aborted
    /\ pc[t] = "map"
    /\ CASE fileState = "noopen" ->
              \* if (fd == -1) return *baseAddress = nullptr, nullptr;
              /\ baseAddress' = Null
              /\ Goto(t, "store")
              /\ UNCHANGED <<mapping, aborted, mapCount>>
         [] fileState = "badsize" ->
              \* std::cerr << "Corrupt tablebase file "; exit(EXIT_FAILURE);
              /\ aborted' = TRUE
              /\ UNCHANGED <<baseAddress, mapping, pc, mapCount>>
         [] fileState = "mmapfail" ->
              \* *baseAddress == MAP_FAILED: exit(EXIT_FAILURE);
              /\ aborted' = TRUE
              /\ UNCHANGED <<baseAddress, mapping, pc, mapCount>>
         [] OTHER ->
              /\ mapping' = 1
              /\ baseAddress' = MappedAddress
              /\ mapCount' = mapCount + 1
              /\ Goto(t, "magic")
              /\ UNCHANGED aborted
    /\ UNCHANGED <<probeVars, catalogVars, ready, pairsData, ekeys, antiSwap, fileState,
                   unmapCount, setCount, ghostVars, mutex, active, ret, pstate, calls>>

\* if (memcmp(data, magic, 4)) { unmap(...); return *baseAddress = nullptr, nullptr; }
\* return data + 4;
CheckMagic_KeepAddress(t) ==
    /\ ~aborted
    /\ pc[t] = "magic"
    /\ IF fileState = "badmagic"
       THEN /\ unmapCount' = unmapCount + 1
            /\ Goto(t, "store")
       ELSE /\ Goto(t, "set")
            /\ UNCHANGED unmapCount
    /\ UNCHANGED <<probeVars, catalogVars, aborted, tableVars, mapCount, setCount, ghostVars,
                   mutex, active, ret, pstate, calls>>

CheckMagic_Exit(t) ==
    /\ ~aborted
    /\ pc[t] = "magic"
    /\ IF fileState = "badmagic"
       THEN /\ aborted' = TRUE
            /\ UNCHANGED <<pc, baseAddress, unmapCount>>
       ELSE /\ Goto(t, "set")
            /\ UNCHANGED <<baseAddress, unmapCount, aborted>>
    /\ UNCHANGED <<probeVars, catalogVars, ready, mapping, pairsData, ekeys, antiSwap, fileState,
                   mapCount, setCount, ghostVars, mutex, active, ret, pstate, calls>>

CheckMagic(t) ==
    /\ ~aborted
    /\ pc[t] = "magic"
    /\ IF fileState = "badmagic"
       THEN /\ unmapCount' = unmapCount + 1
            /\ baseAddress' = Null
            /\ Goto(t, "store")
       ELSE /\ Goto(t, "set")
            /\ UNCHANGED <<baseAddress, unmapCount>>
    /\ UNCHANGED <<probeVars, catalogVars, aborted, ready, mapping, pairsData, ekeys, antiSwap,
                   fileState, mapCount, setCount, ghostVars, mutex, active, ret, pstate,
                   calls>>

\* The keys after set() as a variant build would leave them: always exchanged.
KeysAfterSet_Always(keys, swap) == <<keys[2], keys[1]>>

\* (ANTI) if (key != e.key) std::swap(e.key, e.key2);
KeysAfterSet(keys, swap) == IF swap THEN <<keys[2], keys[1]>> ELSE keys

\* if (data) { set<Type>(e, data); (ANTI) if (key != e.key) std::swap(e.key, e.key2); }
Set(t) ==
    /\ ~aborted
    /\ pc[t] = "set"
    /\ pairsData' = "parsed"
    /\ ekeys' = KeysAfterSet(ekeys, antiSwap)
    /\ setCount' = setCount + 1
    /\ Goto(t, "store")
    /\ UNCHANGED <<probeVars, catalogVars, aborted, ready, baseAddress, mapping, antiSwap, fileState,
                   mapCount, unmapCount, ghostVars, mutex, active, ret, pstate, calls>>

\* e.ready.store(true, std::memory_order_release);
StoreReady(t) ==
    /\ ~aborted
    /\ pc[t] = "store"
    /\ ready' = TRUE
    /\ Goto(t, "return")
    /\ UNCHANGED <<probeVars, catalogVars, aborted, baseAddress, mapping, pairsData, ekeys, antiSwap,
                   fileState, countVars, ghostVars, mutex, active, ret, pstate, calls>>

\* return e.baseAddress; the scoped_lock releases the mutex.
Return(t) ==
    /\ ~aborted
    /\ pc[t] = "return"
    /\ ReturnBase(t, "slow")
    /\ mutex' = NoThread
    /\ UNCHANGED <<probeVars, catalogVars, aborted, tableVars, countVars, active, calls>>

MappedStep(t) ==
    \/ Call(t)
    \/ FastPath(t)
    \/ Lock(t)
    \/ Recheck(t)
    \/ Open(t)
    \/ Map(t)
    \/ CheckMagic(t)
    \/ Set(t)
    \/ StoreReady(t)
    \/ Return(t)

---------------------------------------------------------------------------
(* The positions of a probe *)

\* The number of pieces of position 1.
RootPieces == 4

Positions == 1..NPos

MoveKinds == {"capture", "pawn", "promo", "quiet"}

\* MoveList<LEGAL>(pos), as far as the model follows it
LegalMoves(p) == {c \in Positions : parent[c] = p}

\* MoveList<LEGAL>(pos).size(); the moves of an open position that the model
\* does not follow are neither captures nor pawn moves.
TotalCount(p) == Cardinality(LegalMoves(p)) + (IF open[p] THEN 1 ELSE 0)

\* pos.capture(move)
IsCapture(c) == kind[c] = "capture"

\* type_of(pos.moved_piece(move)) == PAWN
IsPawnMove(c) == kind[c] \in {"pawn", "promo"}

\* pos.checkers() && MoveList<LEGAL>(pos).size() == 0
IsMate(p) == inCheck[p] /\ TotalCount(p) = 0

\* The position that first had the pieces of p: a capture and a promotion
\* change the material, the other moves keep it.
RECURSIVE Material(_)
Material(p) ==
    IF kind[p] \in {"root", "capture", "promo"} THEN p ELSE Material(parent[p])

\* pos.count<ALL_PIECES>()
RECURSIVE PieceCount(_)
PieceCount(p) ==
    IF kind[p] = "root" THEN RootPieces
    ELSE PieceCount(parent[p]) - (IF kind[p] = "capture" THEN 1 ELSE 0)

\* pos.side_to_move(): WHITE = 0, BLACK = 1
RECURSIVE SideToMove(_)
SideToMove(p) == IF kind[p] = "root" THEN 0 ELSE 1 - SideToMove(parent[p])

\* pos.material_key(), and the key of the same pieces with the colors swapped
MaterialKey(p) == Material(p)

MaterialKey2(m) == IF symmetric THEN m ELSE m + NPos

---------------------------------------------------------------------------
(* probe_table, search, probe_wdl, probe_dtz *)

WDLLoss == -2

WDLBlessedLoss == -1

WDLDraw == 0

WDLCursedWin == 1

WDLWin == 2

WDLScores == WDLLoss..WDLWin

ProbeStates == {"FAIL", "OK", "CHANGE_STM", "ZEROING_BEST_MOVE"}

\* sign_of(val)
SignOf(val) == IF val > 0 THEN 1 ELSE IF val < 0 THEN -1 ELSE 0

\* dtz_before_zeroing(wdl)
DtzBeforeZeroing_NoCursed(wdl) == SignOf(wdl)

DtzBeforeZeroing(wdl) ==
    CASE wdl = WDLWin         -> 1
      [] wdl = WDLCursedWin   -> 101
      [] wdl = WDLBlessedLoss -> -101
      [] wdl = WDLLoss        -> -1
      [] OTHER                -> 0

\* mapped(*entry, pos) once the lazy mapper has run: the base address, null
\* when the file of this type could not be opened or had a wrong magic.
Mapped(entry, type) ==
    LET state == tbState[wdlTable[entry].key]
    IN IF \/ (type = "WDL" /\ state \in {"absent", "nomap"})
          \/ (type = "DTZ" /\ state = "nodtz")
       THEN Null ELSE MappedAddress

\* do_probe_table: stm = (symmetricBlackToMove || blackStronger) ^ pos.side_to_move()
TableStm(p, entry) ==
    LET symmetricBlackToMove == wdlTable[entry].key = wdlTable[entry].key2
                                /\ SideToMove(p) = 1
        blackStronger == MaterialKey(p) # wdlTable[entry].key
    IN IF symmetricBlackToMove \/ blackStronger
       THEN 1 - SideToMove(p) ELSE SideToMove(p)

\* check_dtz_stm(entry, stm, f)
CheckDtzStm(entry, stm) ==
    \/ flagStm = stm
    \/ (wdlTable[entry].key = wdlTable[entry].key2 /\ ~hasPawns)

\* map_score(entry, f, value, wdl) of a WDL and of a DTZ table; the Mapped
\* lookup of the DTZ one is part of the file's data.
MapScore_AlwaysDoubles(type, value, wdl) ==
    IF type = "WDL" THEN value - 2 ELSE 2 * value + 1

MapScore(type, value, wdl) ==
    IF type = "WDL"
    THEN value - 2
    ELSE (IF \/ (wdl = WDLWin /\ ~winPlies)
             \/ (wdl = WDLLoss /\ ~lossPlies)
             \/ wdl = WDLCursedWin
             \/ wdl = WDLBlessedLoss
          THEN 2 * value ELSE value) + 1

\* check_dtz_stm(entry, stm, f) as do_probe_table's overloads resolve it:
\* the one of a WDL table returns true.
CheckStm_WdlToo(type, entry, stm) == CheckDtzStm(entry, stm)

CheckStm(type, entry, stm) == type = "WDL" \/ CheckDtzStm(entry, stm)

\* do_probe_table(pos, entry, wdl, result)
\* read: the pieces were reordered, the index computed and decompress_pairs
\* called.
DoProbeTable(type, p, entry, wdl, result) ==
    IF ~CheckStm(type, entry, TableStm(p, entry))
    THEN [value |-> 0, result |-> "CHANGE_STM", read |-> FALSE]
    ELSE [value  |-> MapScore(type, IF type = "WDL" THEN wdlData[p] ELSE dtzData[p], wdl),
          result |-> result, read |-> TRUE]

\* probe_table<Type>(pos, result, wdl)
ProbeTable_NoKvK(type, p, result, wdl) ==
    LET entry == Get(hashTable, MaterialKey(p), type)
    IN IF entry = NullTable \/ Mapped(entry, type) = Null
       THEN [value |-> 0, result |-> "FAIL"]
       ELSE DoProbeTable(type, p, entry, wdl, result)

ProbeTable_LookupFirst(type, p, result, wdl) ==
    LET entry == Get(hashTable, MaterialKey(p), type)
    IN IF entry = NullTable \/ Mapped(entry, type) = Null
       THEN [value |-> 0, result |-> "FAIL"]
       ELSE IF PieceCount(p) = 2
       THEN [value |-> WDLDraw, result |-> result]
       ELSE DoProbeTable(type, p, entry, wdl, result)

ProbeTable(type, p, result, wdl) ==
    IF PieceCount(p) = 2
    THEN [value |-> WDLDraw, result |-> result]
    ELSE LET entry == Get(hashTable, MaterialKey(p), type)
         IN IF entry = NullTable \/ Mapped(entry, type) = Null
            THEN [value |-> 0, result |-> "FAIL"]
            ELSE DoProbeTable(type, p, entry, wdl, result)

\* The moves search<CheckZeroingMoves> plays: the captures, and the pawn
\* moves where CheckZeroingMoves is set.
IsSearched_EveryZeroing(c, checkZeroingMoves) == IsCapture(c) \/ IsPawnMove(c)

IsSearched(c, checkZeroingMoves) ==
    IsCapture(c) \/ (checkZeroingMoves /\ IsPawnMove(c))

\* pos.do_move(move, st) with the board at position at, the move being the
\* one that leads to c; pos.undo_move(move) with the board at position at.
DoMove(at, c) == c

UndoMove_Missing(at) == at

UndoMove(at) == parent[at]

\* search<CheckZeroingMoves>(pos, result): the loop over the legal moves from
\* move c on. done: the loop returned from search. searched: the moves the
\* loop has played so far. at: the position on the board.
RECURSIVE Search(_, _, _)
RECURSIVE SearchLoop(_, _, _, _, _, _, _, _)
SearchLoop(p, checkZeroingMoves, c, bestValue, moveCount, result, searched, at) ==
    IF c > NPos
    THEN [done |-> FALSE, bestValue |-> bestValue, moveCount |-> moveCount,
          result |-> result, searched |-> searched, at |-> at]
    ELSE IF parent[c] # p
    THEN SearchLoop(p, checkZeroingMoves, c + 1, bestValue, moveCount, result, searched, at)
    ELSE IF ~IsSearched(c, checkZeroingMoves)
    THEN SearchLoop(p, checkZeroingMoves, c + 1, bestValue, moveCount, result, searched, at)
    ELSE LET sub   == Search(DoMove(at, c), FALSE, result)
             value == -sub.value
         IN IF sub.result = "FAIL"
            THEN [done |-> TRUE, searched |-> searched \cup {c}, at |-> UndoMove(sub.at),
                  ret |-> [value |-> WDLDraw, result |-> "FAIL"]]
            ELSE IF value > bestValue /\ value >= WDLWin
            THEN [done |-> TRUE, searched |-> searched \cup {c}, at |-> UndoMove(sub.at),
                  ret  |-> [value |-> value, result |-> "ZEROING_BEST_MOVE"]]
            ELSE SearchLoop(p, checkZeroingMoves, c + 1,
                            IF value > bestValue THEN value ELSE bestValue,
                            moveCount + 1, sub.result, searched \cup {c},
                            UndoMove(sub.at))

\* bool noMoreMoves = (moveCount && moveCount == totalCount)
NoMoreMoves_AlsoNone(moveCount, totalCount) == moveCount = totalCount

NoMoreMoves(moveCount, totalCount) == moveCount > 0 /\ moveCount = totalCount

\* searched: the moves the loop played; lookup: probe_table<WDL> was called
\* on the position itself; at: the position on the board at the return.
Search(p, checkZeroingMoves, result) ==
    LET loop == SearchLoop(p, checkZeroingMoves, p + 1, WDLLoss, 0, result, {}, p)
    IN IF loop.done
       THEN [value |-> loop.ret.value, result |-> loop.ret.result,
             searched |-> loop.searched, lookup |-> FALSE, at |-> loop.at]
       ELSE LET noMoreMoves == NoMoreMoves(loop.moveCount, TotalCount(p))
                probe == IF noMoreMoves
                         THEN [value |-> loop.bestValue, result |-> loop.result]
                         ELSE ProbeTable("WDL", p, loop.result, WDLDraw)
            IN IF probe.result = "FAIL"
               THEN [value |-> WDLDraw, result |-> "FAIL",
                     searched |-> loop.searched, lookup |-> ~noMoreMoves, at |-> loop.at]
               ELSE IF loop.bestValue >= probe.value
               THEN [value  |-> loop.bestValue,
                     result |-> IF loop.bestValue > WDLDraw \/ noMoreMoves
                                THEN "ZEROING_BEST_MOVE" ELSE "OK",
                     searched |-> loop.searched, lookup |-> ~noMoreMoves, at |-> loop.at]
               ELSE [value |-> probe.value, result |-> "OK",
                     searched |-> loop.searched, lookup |-> ~noMoreMoves, at |-> loop.at]

\* Tablebases::probe_wdl(pos, result)
ProbeWdlOf(p) == Search(p, FALSE, "OK")

\* int minDTZ = 0xFFFF
NoMinDTZ == 65535

\* The filter of the 1-ply search of probe_dtz: a move's dtz replaces minDTZ
\* when it is smaller and has the sign of the position's WDL.
TakesMin_AnySign(dtz, minDTZ, wdl) == dtz < minDTZ

TakesMin(dtz, minDTZ, wdl) == dtz < minDTZ /\ SignOf(dtz) = SignOf(wdl)

\* return minDTZ == 0xFFFF ? -1 : minDTZ: with no legal move the position is
\* mate.
MinDtzResult_Raw(minDTZ) == minDTZ

MinDtzResult(minDTZ) == IF minDTZ = NoMinDTZ THEN -1 ELSE minDTZ

\* Tablebases::probe_dtz(pos, result), and its loop over the legal moves
\* from move c on. The loop needs every legal move: on an open position the
\* probe leaves the model. levels: how many calls of probe_dtz are nested
\* below this one.
RECURSIVE ProbeDtzOf(_)
RECURSIVE MinDtzLoop(_, _, _, _, _, _, _)
MinDtzLoop(p, wdl, c, minDTZ, result, at, levels) ==
    IF c > NPos
    THEN [value |-> MinDtzResult(minDTZ), result |-> result, at |-> at,
          levels |-> levels]
    ELSE IF parent[c] # p
    THEN MinDtzLoop(p, wdl, c + 1, minDTZ, result, at, levels)
    ELSE LET zeroing == IsCapture(c) \/ IsPawnMove(c)
             sub     == IF zeroing THEN Search(DoMove(at, c), FALSE, result)
                        ELSE ProbeDtzOf(DoMove(at, c))
             dtz     == IF zeroing THEN -DtzBeforeZeroing(sub.value) ELSE -sub.value
             minMate == IF dtz = 1 /\ IsMate(c) THEN 1 ELSE minDTZ
             dtzPly  == IF zeroing THEN dtz ELSE dtz + SignOf(dtz)
             minNext == IF TakesMin(dtzPly, minMate, wdl) THEN dtzPly ELSE minMate
             below   == IF zeroing \/ sub.levels < levels THEN levels
                        ELSE sub.levels + 1
         IN IF sub.result \in {"FAIL", "OUT_OF_MODEL"}
            THEN [value |-> 0, result |-> sub.result, at |-> UndoMove(sub.at),
                  levels |-> below]
            ELSE MinDtzLoop(p, wdl, c + 1, minNext, sub.result, UndoMove(sub.at),
                            below)

ProbeDtzOf(p) ==
    LET s == Search(p, TRUE, "OK")
        wdl == s.value
    IN IF s.result = "FAIL" \/ wdl = WDLDraw
       THEN [value |-> 0, result |-> s.result, at |-> s.at, levels |-> 0]
       ELSE IF s.result = "ZEROING_BEST_MOVE"
       THEN [value |-> DtzBeforeZeroing(wdl), result |-> s.result, at |-> s.at,
             levels |-> 0]
       ELSE LET probe == ProbeTable("DTZ", p, s.result, wdl)
            IN IF probe.result = "FAIL"
               THEN [value |-> 0, result |-> "FAIL", at |-> s.at, levels |-> 0]
               ELSE IF probe.result # "CHANGE_STM"
               THEN [value  |-> (probe.value
                                 + (IF wdl = WDLBlessedLoss \/ wdl = WDLCursedWin
                                    THEN 100 ELSE 0)) * SignOf(wdl),
                     result |-> probe.result, at |-> s.at, levels |-> 0]
               ELSE IF open[p]
               THEN [value |-> 0, result |-> "OUT_OF_MODEL", at |-> s.at,
                     levels |-> 0]
               ELSE MinDtzLoop(p, wdl, p + 1, NoMinDTZ, probe.result, s.at, 0)

---------------------------------------------------------------------------
(* What the table files hold: the game-theoretic values of the positions *)

\* The WDL class of a distance-to-zero value (comment of probe_dtz):
\* 1..100 win, above 100 cursed win, 0 draw, and the same for the losses.
WdlOf(v) ==
    IF v = 0 THEN WDLDraw
    ELSE IF v > 100 THEN WDLCursedWin
    ELSE IF v > 0 THEN WDLWin
    ELSE IF v < -100 THEN WDLBlessedLoss
    ELSE WDLLoss

Min(S) == CHOOSE v \in S : \A w \in S : v <= w

\* The best of the values the legal moves offer to the side to move: the
\* shortest win, else the shortest cursed win, else a draw, else the longest
\* blessed loss, else the longest loss.
BestDtz(S) ==
    LET wins    == {v \in S : v > 0 /\ v <= 100}
        cursed  == {v \in S : v > 100}
        blessed == {v \in S : v < -100}
    IN IF wins # {} THEN Min(wins)
       ELSE IF cursed # {} THEN Min(cursed)
       ELSE IF 0 \in S THEN 0
       ELSE IF blessed # {} THEN Min(blessed)
       ELSE Min(S)

\* The true value of a position, in plies to the next zeroing move or mate,
\* and what the move to position c is worth to the side that plays it.
RECURSIVE TrueDtz(_)
RECURSIVE MoveDtz(_)
MoveDtz(c) ==
    LET v == TrueDtz(c)
    IN IF IsCapture(c) \/ IsPawnMove(c) THEN -DtzBeforeZeroing(WdlOf(v))
       ELSE IF IsMate(c) THEN 1
       ELSE -(v + SignOf(v))

TrueDtz(p) ==
    IF open[p] THEN leafDtz[p]
    ELSE IF LegalMoves(p) = {} THEN (IF inCheck[p] THEN -1 ELSE 0)
    ELSE BestDtz({MoveDtz(c) : c \in LegalMoves(p)})

TrueWdl(p) == WdlOf(TrueDtz(p))

\* Some capture reaches the value of the position: the WDL table may hold
\* any value not above it there, search takes the capture's.
CaptureIsBest(p) ==
    \E c \in LegalMoves(p) : IsCapture(c) /\ -TrueWdl(c) = TrueWdl(p)

\* The value the WDL file holds for p (map_score subtracts 2).
ValidWdlData(p) ==
    (IF dontCare /\ CaptureIsBest(p) THEN WDLLoss ELSE TrueWdl(p)) + 2

\* The value the DTZ file holds for p: the distance in plies where the table
\* counts plies, in moves otherwise; cursed results are stored less 100.
ValidDtzData(p) ==
    LET v   == TrueDtz(p)
        wdl == WdlOf(v)
        a   == IF v < 0 THEN -v ELSE v
        d   == IF a > 100 THEN a - 100 ELSE a
    IN IF v = 0 THEN 0
       ELSE IF (wdl = WDLWin /\ winPlies) \/ (wdl = WDLLoss /\ lossPlies)
       THEN d - 1
       ELSE (d - 1) \div 2

\* The catalog Tablebases::init builds for the materials of the positions:
\* one add per material of three pieces or more.
RECURSIVE CatalogUpTo(_)
CatalogUpTo(m) ==
    IF m = 0
    THEN [hashTable |-> ClearedHashTable, wdlTable |-> <<>>,
          MaxCardinality |-> 0, aborted |-> FALSE]
    ELSE IF Material(m) = m /\ PieceCount(m) >= 3
    THEN AddTo(CatalogUpTo(m - 1), PieceCount(m), tbState[m] # "absent",
               m, MaterialKey2(m))
    ELSE CatalogUpTo(m - 1)

TbStates == {"absent", "nomap", "nodtz"}

\* The true values of the open positions the probes start from: the WDL
\* classes, and the distances around the 50-move edge.
ClassValues == {-101, -2, 0, 2, 101}

EdgeValues == {-101, -100, -99, -2, 0, 2, 99, 100, 101}

\* at: the position on the board when the probe returned.
NoProbe == [pos |-> 0, value |-> 0, result |-> "OK", at |-> 0]

\* No position is being encoded.
NoEncoding ==
    /\ encPhase = "none"
    /\ encBoard = {}
    /\ encSide = 0
    /\ encIdx = -1
    /\ encStm = 0
    /\ encPrev = [idx |-> -1, stm |-> 0]
    /\ encSlot = -1

\* No block is being looked up.
NoDecoding ==
    /\ dcPhase = "none"
    /\ dcSpan = 1
    /\ dcBlocksNum = 0
    /\ dcBlockLength = <<>>
    /\ dcTbSize = 0
    /\ dcIdx = 0
    /\ dcBlock = 0
    /\ dcOffset = 0
    /\ dcOut = FALSE

\* No value is being read from a block.
NoPairs ==
    /\ dcBook = [btree |-> <<>>, symlen |-> <<>>, stream |-> <<>>]
    /\ dcHuff = [phase |-> "none", offset |-> 0, start |-> 0, pos |-> 0, sym |-> 0, ret |-> 0]

\* No leading group of two pieces is being encoded.
NoLeadGroup ==
    lead = [phase |-> "none", variant |-> "CHESS", squares |-> <<0, 0>>,
            factor |-> 0, branch |-> "none", idx |-> 0]

\* Neither an index nor a block is being looked up.
NoCodec == NoEncoding /\ NoDecoding /\ NoPairs /\ NoLeadGroup

\* No call of root_probe or root_probe_wdl has been made.
NoRootProbe ==
    /\ rootKind = "none"
    /\ rootPos = 0
    /\ rootAt = 0
    /\ rootTodo = {}
    /\ rootResult = "OK"
    /\ rootRet = "running"
    /\ rootDtz = [c \in Positions |-> [ranked |-> FALSE, dtz |-> 0]]
    /\ rootFailed = FALSE

\* The positions that have the pieces of no earlier position and a table.
Materials == {p \in Positions : Material(p) = p /\ PieceCount(p) >= 3}

\* A tree of positions, their true values and table files that hold them;
\* at most one material has a table in one of the states tbStates, or no
\* material has a file at all.
\* anyFlags: the files carry any STM flag and a material with both sides
\* alike may have pawns; otherwise the files are the ones of InitPositions.
InitPositionsOf(leafValues, tbStates, plies, anyFlags) ==
    /\ parent \in {f \in [Positions -> 0..(NPos - 1)] :
                     f[1] = 0 /\ \A p \in Positions \ {1} : f[p] >= 1 /\ f[p] < p}
    /\ hasPawns \in BOOLEAN
    /\ \E k \in [Positions \ {1} ->
                   IF hasPawns THEN MoveKinds ELSE {"capture", "quiet"}] :
           kind = [p \in Positions |-> IF p = 1 THEN "root" ELSE k[p]]
    /\ \A p \in Positions : PieceCount(p) >= 2
    /\ \E o \in [{p \in Positions : LegalMoves(p) = {} /\ PieceCount(p) > 2} -> BOOLEAN] :
           open = [p \in Positions |->
                     IF p \in DOMAIN o THEN o[p] ELSE PieceCount(p) = 2]
    /\ \E i \in [{p \in Positions : LegalMoves(p) = {} /\ ~open[p]} -> BOOLEAN] :
           inCheck = [p \in Positions |-> IF p \in DOMAIN i THEN i[p] ELSE FALSE]
    /\ \E l \in [{p \in Positions : open[p] /\ PieceCount(p) > 2} -> leafValues] :
           leafDtz = [p \in Positions |-> IF p \in DOMAIN l THEN l[p] ELSE 0]
    /\ winPlies \in plies
    /\ lossPlies = winPlies
    /\ dtzData = [p \in Positions |-> ValidDtzData(p)]
    /\ dontCare \in BOOLEAN
    /\ wdlData = [p \in Positions |-> ValidWdlData(p)]
    /\ symmetric \in {s \in BOOLEAN : anyFlags \/ (s => ~hasPawns)}
    /\ flagStm \in {f \in {0, 1} : anyFlags \/ (symmetric => f = 0)}
    /\ \/ tbState = [p \in Positions |-> "ok"]
       \/ \E m \in Materials, state \in tbStates :
              tbState = [p \in Positions |-> IF p = m THEN state ELSE "ok"]
       \/ /\ "absent" \in tbStates
          /\ tbState = [p \in Positions |-> "absent"]
    /\ \E cat \in {CatalogUpTo(NPos)} :
           /\ hashTable = cat.hashTable
           /\ wdlTable = cat.wdlTable
           /\ MaxCardinality = cat.MaxCardinality
           /\ aborted = cat.aborted
    /\ keyPool = {}
    /\ initDone = TRUE
    /\ tbPaths = DefaultPaths
    /\ lastWdl = NoProbe
    /\ lastDtz = NoProbe
    /\ NoRootProbe

\* The files of a pawnless material with both sides alike store white to
\* move, and such a material has no pawns here.
InitPositions(leafValues, tbStates, plies) ==
    InitPositionsOf(leafValues, tbStates, plies, FALSE)

\* The engine probes the WDL value of position p.
ProbeWdl(p) ==
    /\ ~aborted /\ initDone
    /\ lastWdl.pos = 0
    /\ \E r \in {ProbeWdlOf(p)} :
          lastWdl' = [pos |-> p, value |-> r.value, result |-> r.result, at |-> r.at]
    /\ UNCHANGED <<catalogVars, aborted, tableVars, threadVars, countVars, ghostVars,
                   treeVars, fileVars, lastDtz, rootVars, codecVars, lazyVars>>

\* The engine probes the DTZ value of the position it probed for WDL.
ProbeDtz(p) ==
    /\ ~aborted /\ initDone
    /\ lastWdl.pos = p
    /\ lastDtz.pos = 0
    /\ \E r \in {ProbeDtzOf(p)} :
          /\ r.result # "OUT_OF_MODEL"
          /\ lastDtz' = [pos |-> p, value |-> r.value, result |-> r.result, at |-> r.at]
    /\ UNCHANGED <<catalogVars, aborted, tableVars, threadVars, countVars, ghostVars,
                   treeVars, fileVars, lastWdl, rootVars, codecVars, lazyVars>>

---------------------------------------------------------------------------
(* root_probe and root_probe_wdl *)

\* pos.rule50_count() == 0 after the root move: it was a capture or a pawn
\* move.
IsZeroing(c) == IsCapture(c) \/ IsPawnMove(c)

\* if (result == FAIL) return false
RootStops_Never(result) == FALSE

RootStops(result) == result = "FAIL"

\* The move was zeroing: r is what probe_wdl returned for the position
\* after it, and the dtz is dtz_before_zeroing(-wdl).
AfterZeroingMove(r) ==
    [probed |-> TRUE, result |-> r.result, dtz |-> DtzBeforeZeroing(-r.value),
     at |-> UndoMove(r.at)]

\* Otherwise r is what probe_dtz returned, and the dtz is counted one ply
\* further from the root.
AfterOtherMove(r) ==
    [probed |-> TRUE, result |-> r.result,
     dtz |-> IF -r.value > 0 THEN -r.value + 1
             ELSE IF -r.value < 0 THEN -r.value - 1 ELSE -r.value,
     at |-> UndoMove(r.at)]

\* "Make sure that a mating move is assigned a dtz value of 1"
MateFix(c, m) ==
    IF inCheck[c] /\ m.dtz = 2 /\ TotalCount(c) = 0 THEN [m EXCEPT !.dtz = 1] ELSE m

\* The body of root_probe's loop for root move c up to undo_move: whether a
\* probe was made, the state it left and the dtz counted from the root.
\* draw: pos.is_draw(1) after the move.
RootMoveDtz(c, draw) ==
    MateFix(c, IF IsZeroing(c)
               THEN AfterZeroingMove(ProbeWdlOf(DoMove(rootAt, c)))
               ELSE IF draw
               THEN [probed |-> FALSE, result |-> "OK", dtz |-> 0,
                     at |-> UndoMove(DoMove(rootAt, c))]
               ELSE AfterOtherMove(ProbeDtzOf(DoMove(rootAt, c))))

\* r is what probe_wdl returned for the position after the move.
AfterWdlProbe(r) ==
    [probed |-> TRUE, result |-> r.result, dtz |-> -r.value, at |-> UndoMove(r.at)]

\* The body of root_probe_wdl's loop for root move c up to undo_move; dtz
\* holds the WDL value.
RootMoveWdl(c, draw) ==
    IF draw
    THEN [probed |-> FALSE, result |-> "OK", dtz |-> WDLDraw,
          at |-> UndoMove(DoMove(rootAt, c))]
    ELSE AfterWdlProbe(ProbeWdlOf(DoMove(rootAt, c)))

\* root_probe (k = "dtz") or root_probe_wdl (k = "wdl") is called on
\* position p with all its legal moves as root moves. The local result is
\* declared without a value: it holds any state until a probe writes it.
RootStart(p, k) ==
    /\ ~aborted /\ initDone
    /\ rootKind = "none"
    /\ ~open[p] /\ LegalMoves(p) # {}
    /\ rootKind' = k
    /\ rootPos' = p
    /\ rootAt' = p
    /\ rootTodo' = LegalMoves(p)
    /\ rootResult' \in ProbeStates
    /\ UNCHANGED <<catalogVars, aborted, tableVars, threadVars, countVars, ghostVars,
                   treeVars, fileVars, lastWdl, lastDtz, rootRet, rootDtz, rootFailed,
                   codecVars, lazyVars>>

\* One pass of the loop over the root moves: do_move, the probe, undo_move,
\* the test of result, and the ranking of the move. The root moves come in
\* any order.
RootMove(c, draw) ==
    /\ ~aborted
    /\ rootKind # "none" /\ rootRet = "running"
    /\ c \in rootTodo
    /\ draw => ~IsZeroing(c)
    /\ \E m \in {IF rootKind = "dtz" THEN RootMoveDtz(c, draw) ELSE RootMoveWdl(c, draw)} :
          /\ m.result # "OUT_OF_MODEL"
          /\ rootResult' = IF m.probed THEN m.result ELSE rootResult
          /\ rootAt' = m.at
          /\ rootFailed' = (rootFailed \/ (m.probed /\ m.result = "FAIL"))
          /\ IF RootStops(rootResult')
             THEN /\ rootRet' = "false"
                  /\ UNCHANGED <<rootTodo, rootDtz>>
             ELSE /\ rootTodo' = rootTodo \ {c}
                  /\ rootDtz' = [rootDtz EXCEPT ![c] = [ranked |-> TRUE, dtz |-> m.dtz]]
                  /\ UNCHANGED rootRet
    /\ UNCHANGED <<catalogVars, aborted, tableVars, threadVars, countVars, ghostVars,
                   treeVars, fileVars, lastWdl, lastDtz, rootKind, rootPos, codecVars, lazyVars>>

\* The loop has passed every root move: return true.
RootDone ==
    /\ ~aborted
    /\ rootKind # "none" /\ rootRet = "running"
    /\ rootTodo = {}
    /\ rootRet' = "true"
    /\ UNCHANGED <<catalogVars, aborted, tableVars, threadVars, countVars, ghostVars,
                   treeVars, fileVars, lastWdl, lastDtz, rootKind, rootPos, rootAt, rootTodo,
                   rootResult, rootDtz, rootFailed, codecVars, lazyVars>>

\* The positions and files of the specifications that do not probe.
NoPositions ==
    /\ parent = [p \in Positions |-> p - 1]
    /\ kind = [p \in Positions |-> IF p = 1 THEN "root" ELSE "quiet"]
    /\ open = [p \in Positions |-> p = NPos]
    /\ inCheck = [p \in Positions |-> FALSE]
    /\ leafDtz = [p \in Positions |-> 0]
    /\ tbState = [p \in Positions |-> "ok"]
    /\ symmetric = FALSE /\ hasPawns = FALSE /\ flagStm = 0
    /\ winPlies = FALSE /\ lossPlies = FALSE /\ dontCare = FALSE
    /\ wdlData = [p \in Positions |-> 2]
    /\ dtzData = [p \in Positions |-> 0]
    /\ lastWdl = NoProbe
    /\ lastDtz = NoProbe
    /\ NoRootProbe

---------------------------------------------------------------------------
(***************************************************************************)
(* Tablebases::init called again *)
(***************************************************************************)

\* TBTables.clear() as a variant build would do it: the tables kept.
ClearTables_Keeps(cat) == [cat EXCEPT !.MaxCardinality = 0]

\* TBTables.clear(); MaxCardinality = 0;
ClearTables(cat) ==
    [hashTable |-> ClearedHashTable, wdlTable |-> <<>>,
     MaxCardinality |-> 0, aborted |-> cat.aborted]

\* The WDL file of material m is found under paths: directory A holds the
\* files tbState tells of, directory B the same but for those of the
\* material of the root position.
FileFound(paths, m) == tbState[m] # "absent" /\ (paths = "B" => m # 1)

\* The add calls of init, made on the catalog cat for the materials up to m.
RECURSIVE AddAll(_, _, _)
AddAll(cat, paths, m) ==
    IF m = 0
    THEN cat
    ELSE IF Material(m) = m /\ PieceCount(m) >= 3
    THEN AddTo(AddAll(cat, paths, m - 1), PieceCount(m), FileFound(paths, m),
               m, MaterialKey2(m))
    ELSE AddAll(cat, paths, m - 1)

\* Tablebases::init on the catalog cat.
InitFrom(cat, paths) ==
    LET cleared == ClearTables(cat)
    IN  IF paths \in EmptyPaths THEN cleared ELSE AddAll(cleared, paths, NPos)

\* Tablebases::init(paths), called while no probe runs; what earlier probes
\* returned is forgotten.
TablebasesInit(paths) ==
    /\ ~aborted
    /\ tbPaths' = paths
    /\ LET cat == InitFrom(Catalog, paths)
       IN  /\ hashTable' = cat.hashTable
           /\ wdlTable' = cat.wdlTable
           /\ MaxCardinality' = cat.MaxCardinality
           /\ aborted' = cat.aborted
    /\ initDone' = TRUE
    /\ lastWdl' = NoProbe
    /\ lastDtz' = NoProbe
    /\ lazy' = FreshTables
    /\ lookup' = NoLookup
    /\ UNCHANGED <<keyPool, tableVars, threadVars, countVars, ghostVars, treeVars, fileVars,
                   rootVars, codecVars>>

---------------------------------------------------------------------------
(***************************************************************************)
(* probe_table and mapped() on the tables of the catalog, one call at a    *)
(* time                                                                    *)
(***************************************************************************)

\* e.ready.store(true, std::memory_order_release): reached whether or not
\* the file was mapped.
ReadyAfterMapped_IfMapped(base) == base # Null

ReadyAfterMapped(base) == TRUE

\* mapped(e, pos) on the table e, whose file maps to fileBase (null when it
\* cannot be opened or has a wrong magic): the table afterwards, the address
\* returned, and the path taken - "fast" by e.ready, "slow" through the
\* file, "again" through the file of a table it was tried on before.
MappedOf(e, fileBase) ==
    IF e.ready
    THEN [table |-> e, base |-> e.baseAddress, path |-> "fast"]
    ELSE [table |-> [ready |-> ReadyAfterMapped(fileBase), baseAddress |-> fileBase,
                     tried |-> TRUE],
          base  |-> fileBase,
          path  |-> IF e.tried THEN "again" ELSE "slow"]

\* probe_table<type>(pos, result) on position p
ProbeTableCall(type, p) ==
    /\ ~aborted /\ initDone
    /\ \E entry \in {IF PieceCount(p) = 2 THEN NullTable
                     ELSE Get(hashTable, MaterialKey(p), type)} :
          IF entry = NullTable
          THEN /\ lookup' = [pos |-> p, type |-> type, entry |-> NullTable, path |-> "none",
                             result |-> IF PieceCount(p) = 2 THEN "OK" ELSE "FAIL"]
               /\ UNCHANGED lazy
          ELSE \E m \in {MappedOf(lazy[entry][type], Mapped(entry, type))} :
                  /\ lazy' = [lazy EXCEPT ![entry][type] = m.table]
                  /\ lookup' = [pos |-> p, type |-> type, entry |-> entry, path |-> m.path,
                                result |-> IF m.base = Null THEN "FAIL"
                                           ELSE DoProbeTable(type, p, entry, WDLDraw, "OK").result]
    /\ UNCHANGED <<catalogVars, aborted, tableVars, threadVars, countVars, ghostVars,
                   treeVars, fileVars, lastWdl, lastDtz, rootVars, codecVars>>

---------------------------------------------------------------------------
(***************************************************************************)
(* do_probe_table: the index of a position in its table *)
(* (a table without pawns whose pieces are all unique: K, N against K) *)
(***************************************************************************)

Squares == 0..63

FileOf(s) == s % 8
RankOf(s) == s \div 8

\* s ^ 7 and s ^ 56 on a square 0..63: the file, the rank mirrored.
FlipFile(s) == (7 - FileOf(s)) + 8 * RankOf(s)
FlipRank(s) == FileOf(s) + 8 * (7 - RankOf(s))

\* s ^ flipSquares, flipSquares being 0 or 56.
FlipSquares(s, flip) == IF flip THEN FlipRank(s) ELSE s

\* off_A1H8: negative below the a1-h8 diagonal, 0 on it, positive above.
OffA1H8(s) == RankOf(s) - FileOf(s)

\* flip_diag: ((sq >> 3) | (sq << 3)) & 63, the rank and the file exchanged.
FlipDiag(s) == RankOf(s) + 8 * FileOf(s)

\* MapB1H1H7[]: the squares below the a1-h8 diagonal numbered from 0 in
\* ascending order, every other square 0.
MapB1H1H7 ==
    [s \in Squares |->
        IF OffA1H8(s) < 0
        THEN Cardinality({t \in 0..(s - 1) : OffA1H8(t) < 0})
        ELSE 0]

\* The squares the first loop over SQ_A1..SQ_D4 numbers, and those the second.
InTriangle(s) == s <= 27 /\ OffA1H8(s) < 0 /\ FileOf(s) <= 3
OnShortDiag(s) == s <= 27 /\ OffA1H8(s) = 0 /\ FileOf(s) <= 3

\* MapA1D1D4[]: the squares of the triangle b1-d1-d3 numbered from 0, then
\* the squares a1..d4 of the diagonal after them, every other square 0.
MapA1D1D4 ==
    [s \in Squares |->
        IF InTriangle(s)
        THEN Cardinality({t \in 0..(s - 1) : InTriangle(t)})
        ELSE IF OnShortDiag(s)
        THEN Cardinality({t \in Squares : InTriangle(t)})
             + Cardinality({t \in 0..(s - 1) : OnShortDiag(t)})
        ELSE 0]

\* A piece is a colour (0 white, 1 black) and a type; piece ^ flipColor,
\* flipColor being 0 or 8, changes the colour.
Pc(c, t) == [c |-> c, t |-> t]
FlipColor(piece, flip) == IF flip THEN Pc(1 - piece.c, piece.t) ELSE piece

\* d->pieces of the two sub-tables of the table (set_groups reads them from
\* the file): the same pieces, white the stronger side, in the order chosen
\* for the side to move.
DPieces(stm) ==
    IF stm = 0
    THEN <<Pc(0, "K"), Pc(0, "N"), Pc(1, "K")>>
    ELSE <<Pc(1, "K"), Pc(0, "N"), Pc(0, "K")>>

\* entry->key and entry->key2: the material with white, with black stronger.
MaterialOf(board) == {x.pc : x \in board}
EntryKey  == {DPieces(0)[i] : i \in 1..3}
EntryKey2 == {FlipColor(piece, TRUE) : piece \in EntryKey}

\* set_groups for these pieces: one leading group of three, groupIdx[0] = 1,
\* and groupIdx[1], the number of entries of the sub-table.
GroupLen == <<3, 0>>
LeadFactor == 31332
GroupIdx == <<1, 1 * LeadFactor>>
TbSize == GroupIdx[2]

\* The pieces of the board in ascending order of their squares (pop_lsb), the
\* squares and colours mapped as they are collected.
RECURSIVE Collect(_, _)
Collect(board, flip) ==
    IF board = {} THEN <<>>
    ELSE LET m == CHOOSE x \in board : \A y \in board : x.sq <= y.sq
         IN  <<[sq |-> FlipSquares(m.sq, flip), pc |-> FlipColor(m.pc, flip)]>>
                \o Collect(board \ {m}, flip)

\* The first j from `from` on with list[j].pc = piece, 0 when there is none.
RECURSIVE FirstMatch(_, _, _)
FirstMatch(list, piece, from) ==
    IF from > Len(list) THEN 0
    ELSE IF list[from].pc = piece THEN from
    ELSE FirstMatch(list, piece, from + 1)

SwapAt(list, i, j) == [list EXCEPT ![i] = list[j], ![j] = list[i]]

\* The reordering loop: for i below the last place, the first later piece
\* equal to d->pieces[i] is exchanged with the piece at i.
RECURSIVE Reorder(_, _, _)
Reorder(list, dpieces, i) ==
    IF i > Len(list) - 1 THEN list
    ELSE LET j == FirstMatch(list, dpieces[i], i + 1)
         IN  Reorder(IF j = 0 THEN list ELSE SwapAt(list, i, j), dpieces, i + 1)

MapAll(sq, F(_)) == [i \in DOMAIN sq |-> F(sq[i])]

\* The first piece of the leading group off the diagonal, 0 when all are on it.
RECURSIVE FirstOffDiag(_, _, _)
FirstOffDiag(sq, i, len) ==
    IF i > len THEN 0
    ELSE IF OffA1H8(sq[i]) # 0 THEN i
    ELSE FirstOffDiag(sq, i + 1, len)

\* The diagonal flip as a variant build would make it: never.
DiagNormal_Never(sq, len) == sq

\* The squares from the first off-diagonal piece of the leading group on are
\* flipped when that piece is above the diagonal.
DiagNormal(sq, len) ==
    LET i == FirstOffDiag(sq, 1, len)
    IN  IF i # 0 /\ OffA1H8(sq[i]) > 0
        THEN [j \in DOMAIN sq |-> IF j >= i THEN FlipDiag(sq[j]) ELSE sq[j]]
        ELSE sq

\* The squares of a table without pawns after the three flips.
Normalize(sq, len) ==
    LET a == IF FileOf(sq[1]) > 3 THEN MapAll(sq, FlipFile) ELSE sq
        b == IF RankOf(a[1]) > 3 THEN MapAll(a, FlipRank) ELSE a
    IN  DiagNormal(b, len)

B(x) == IF x THEN 1 ELSE 0

\* The index of three unique pieces encoded together.
LeadIndex3(sq) ==
    LET adjust1 == B(sq[2] > sq[1])
        adjust2 == B(sq[3] > sq[1]) + B(sq[3] > sq[2])
    IN  IF OffA1H8(sq[1]) # 0
        THEN (MapA1D1D4[sq[1]] * 63 + (sq[2] - adjust1)) * 62 + sq[3] - adjust2
        ELSE IF OffA1H8(sq[2]) # 0
        THEN (6 * 63 + RankOf(sq[1]) * 28 + MapB1H1H7[sq[2]]) * 62
             + sq[3] - adjust2
        ELSE IF OffA1H8(sq[3]) # 0
        THEN 6 * 63 * 62 + 4 * 28 * 62
             + RankOf(sq[1]) * 7 * 28
             + (RankOf(sq[2]) - adjust1) * 28
             + MapB1H1H7[sq[3]]
        ELSE 6 * 63 * 62 + 4 * 28 * 62 + 4 * 7 * 28
             + RankOf(sq[1]) * 7 * 6
             + (RankOf(sq[2]) - adjust1) * 6
             + (RankOf(sq[3]) - adjust2)

\* The choice of the sub-table as a variant build would make it: the side
\* to move taken as it is.
SubTableStm_Plain(board, side) == side

\* blackStronger, and the side stm whose sub-table is read (the two keys of
\* the table differ, so symmetricBlackToMove is false).
BlackStronger(board) == MaterialOf(board) # EntryKey
SubTableStm(board, side) == IF BlackStronger(board) THEN 1 - side ELSE side

\* do_probe_table up to the index: the sub-table and the index idx handed
\* to decompress_pairs.
TableIndex(board, side) ==
    LET flip == BlackStronger(board)
        stm  == SubTableStm(board, side)
        list == Reorder(Collect(board, flip), DPieces(stm), 1)
        sq   == Normalize([i \in DOMAIN list |-> list[i].sq], GroupLen[1])
    IN  [stm |-> stm, idx |-> LeadIndex3(sq) * GroupIdx[1], squares |-> sq]

\* ---- the positions of the table and its entries

\* The eight symmetries of the board: the file, the rank and the diagonal
\* flipped or not.
Sym ==
    {[s \in Squares |->
        LET a == IF f THEN FlipFile(s) ELSE s
            b == IF r THEN FlipRank(a) ELSE a
        IN  IF d THEN FlipDiag(b) ELSE b] : f \in BOOLEAN, r \in BOOLEAN, d \in BOOLEAN}

KingStep(a, b) ==
    /\ a # b
    /\ RankOf(a) - RankOf(b) \in -1..1
    /\ FileOf(a) - FileOf(b) \in -1..1

KnightStep(a, b) ==
    LET dr == RankOf(a) - RankOf(b)
        df == FileOf(a) - FileOf(b)
    IN  dr * dr + df * df = 5

SquareOf(board, piece) == (CHOOSE x \in board : x.pc = piece).sq

\* A legal position of the material: three pieces on three squares, the
\* kings not next to each other, the king of the side not to move not
\* attacked by the knight.
LegalPosition(board, side) ==
    LET strong == IF BlackStronger(board) THEN 1 ELSE 0
        ks     == SquareOf(board, Pc(strong, "K"))
        ns     == SquareOf(board, Pc(strong, "N"))
        kw     == SquareOf(board, Pc(1 - strong, "K"))
    IN  /\ Cardinality({ks, ns, kw}) = 3
        /\ ~KingStep(ks, kw)
        /\ side = strong => ~KnightStep(ns, kw)

\* The board with the pieces of the sub-table on the squares sq.
BoardOf(sq, stm) == {[sq |-> sq[i], pc |-> DPieces(stm)[i]] : i \in 1..3}

\* The n-th square, counted from 0, that is not in used.
FreeSquare(n, used) ==
    CHOOSE s \in n..(n + Cardinality(used)) :
        s \notin used /\ s - Cardinality({u \in used : u < s}) = n

\* The square of the diagonal a1-h8 on rank r, and the n-th such square,
\* counted from 0, that is not in used.
DiagSquare(r) == 9 * r
FreeDiagSquare(n, used) == DiagSquare(FreeSquare(n, {RankOf(u) : u \in used}))

InvA1D1D4 ==
    [c \in 0..5 |-> CHOOSE s \in Squares : InTriangle(s) /\ MapA1D1D4[s] = c]
InvB1H1H7 ==
    [c \in 0..27 |-> CHOOSE s \in Squares : OffA1H8(s) < 0 /\ MapB1H1H7[s] = c]

\* The placement an entry of the sub-table stands for: the squares of the
\* three pieces, read off the four ranges of the leading index.
EntrySquares(i) ==
    LET c1 == 6 * 63 * 62
        c2 == 4 * 28 * 62
        c3 == 4 * 7 * 28
    IN  IF i < c1
        THEN LET s1 == InvA1D1D4[i \div (63 * 62)]
                 s2 == FreeSquare((i \div 62) % 63, {s1})
             IN  <<s1, s2, FreeSquare(i % 62, {s1, s2})>>
        ELSE IF i < c1 + c2
        THEN LET j  == (i - c1) \div 62
                 s1 == DiagSquare(j \div 28)
                 s2 == InvB1H1H7[j % 28]
             IN  <<s1, s2, FreeSquare(i % 62, {s1, s2})>>
        ELSE IF i < c1 + c2 + c3
        THEN LET j  == i - c1 - c2
                 s1 == DiagSquare(j \div (7 * 28))
                 s2 == FreeDiagSquare((j \div 28) % 7, {s1})
             IN  <<s1, s2, InvB1H1H7[j % 28]>>
        ELSE LET j  == i - c1 - c2 - c3
                 s1 == DiagSquare(j \div (7 * 6))
                 s2 == FreeDiagSquare((j \div 6) % 7, {s1})
             IN  <<s1, s2, FreeDiagSquare(j % 6, {s1, s2})>>

\* ---- the steps

\* The colour mirror of a position: every piece changes colour, every
\* square its rank.
MirrorBoard(board) ==
    {[sq |-> FlipRank(x.sq), pc |-> FlipColor(x.pc, TRUE)] : x \in board}

\* do_probe_table is called on the position at hand.
Encode ==
    /\ encPhase \in {"input", "generated"}
    /\ LET r == TableIndex(encBoard, encSide)
       IN  /\ encIdx' = r.idx
           /\ encStm' = r.stm
    /\ encPrev' = [idx |-> encIdx, stm |-> encStm]
    /\ encPhase' = IF encPhase = "input" THEN "encoded" ELSE "reencoded"
    /\ UNCHANGED <<encBoard, encSide, encSlot>>

\* do_probe_table is called on the colour mirror of the position encoded
\* last, the other side to move.
EncodeMirror ==
    /\ encPhase = "encoded"
    /\ encBoard' = MirrorBoard(encBoard)
    /\ encSide' = 1 - encSide
    /\ LET r == TableIndex(encBoard', encSide')
       IN  /\ encIdx' = r.idx
           /\ encStm' = r.stm
    /\ encPrev' = [idx |-> encIdx, stm |-> encStm]
    /\ encPhase' = "mirrorEncoded"
    /\ UNCHANGED encSlot

\* The placement of an entry of the table is set up on the board.
Generate ==
    /\ encPhase = "slot"
    /\ encBoard' = BoardOf(EntrySquares(encSlot), encSide)
    /\ encPhase' = "generated"
    /\ UNCHANGED <<encSide, encIdx, encStm, encPrev, encSlot>>

---------------------------------------------------------------------------
(***************************************************************************)
(* decompress_pairs: from the index to the block and the offset in it *)
(***************************************************************************)

\* The block lengths and the spans of the model.
MaxBlocks == 4
MaxBlockLen == 2
MaxSpanLog == 2

RECURSIVE Pow2(_)
Pow2(n) == IF n = 0 THEN 1 ELSE 2 * Pow2(n - 1)
Spans == {Pow2(n) : n \in 0..MaxSpanLog}

\* --block on the uint32_t block: below 0 it wraps to 2^32 - 1, a number
\* beyond the integers TLC has, which -1 stands for.
Decrement32(block) == IF block = 0 THEN -1 ELSE block - 1

\* The values the first n blocks store: block b stores blockLength[b] + 1.
RECURSIVE ValuesIn(_, _)
ValuesIn(bl, n) == IF n = 0 THEN 0 ELSE ValuesIn(bl, n - 1) + bl[n] + 1

\* The block that stores the value of index i and the offset of the value in
\* it, searched from block b on.
RECURSIVE Locate(_, _, _)
Locate(bl, b, i) ==
    IF i <= bl[b + 1] THEN [block |-> b, offset |-> i]
    ELSE Locate(bl, b + 1, i - bl[b + 1] - 1)

\* I(k) = k * d->span + d->span / 2
SparseI(k, span) == k * span + span \div 2

\* d->sparseIndexSize
SparseIndexSize(tbSize, span) == (tbSize + span - 1) \div span

\* SparseIndex[k] of a well-formed file: the block and the offset of the
\* value of index I(k).
SparseIndex(bl, span, k) == Locate(bl, 0, SparseI(k, span))

\* A well-formed sub-table: the blocksNum blocks store the tbSize values,
\* and the padding entries that follow make every I(k) an index into
\* blockLength[].
WellFormed(bl, blocksNum, tbSize, span) ==
    /\ blocksNum \in 1..Len(bl)
    /\ tbSize \in 1..ValuesIn(bl, blocksNum)
    /\ \A k \in 0..(SparseIndexSize(tbSize, span) - 1) :
           SparseI(k, span) < ValuesIn(bl, Len(bl))

\* idx - I(k) as a variant build would compute it: the half span left out.
SparseDiff_NoHalfSpan(idx, span) == idx % span

\* int diff = idx % d->span - d->span / 2
SparseDiff(idx, span) == (idx % span) - (span \div 2)

\* d->blockLength[block] is an entry of the array.
InBlockLength(block) == block \in 0..(Len(dcBlockLength) - 1)

\* The sparse index entry of idx is read and the difference added.
DecompressSeek ==
    /\ dcPhase = "seek"
    /\ LET k == dcIdx \div dcSpan
           e == SparseIndex(dcBlockLength, dcSpan, k)
       IN  /\ dcBlock' = e.block
           /\ dcOffset' = e.offset + SparseDiff(dcIdx, dcSpan)
    /\ dcPhase' = "walk"
    /\ UNCHANGED <<dcSpan, dcBlocksNum, dcBlockLength, dcTbSize, dcIdx, dcOut>>

\* One pass of the first loop: offset += d->blockLength[--block] + 1. A
\* read outside the array gives any value.
WalkBack ==
    /\ dcPhase = "walk"
    /\ dcOffset < 0
    /\ dcBlock' = Decrement32(dcBlock)
    /\ \E len \in 0..MaxBlockLen :
           /\ InBlockLength(dcBlock') => len = dcBlockLength[dcBlock' + 1]
           /\ dcOffset' = dcOffset + len + 1
    /\ dcOut' = (dcOut \/ ~InBlockLength(dcBlock'))
    /\ UNCHANGED <<dcPhase, dcSpan, dcBlocksNum, dcBlockLength, dcTbSize, dcIdx>>

\* One test of the second loop, and its body when the test holds:
\* offset -= d->blockLength[block++] + 1. The loop ends, and the block is
\* found, when the test fails.
WalkForward ==
    /\ dcPhase = "walk"
    /\ dcOffset >= 0
    /\ \E len \in 0..MaxBlockLen :
           /\ InBlockLength(dcBlock) => len = dcBlockLength[dcBlock + 1]
           /\ IF dcOffset > len
              THEN /\ dcOffset' = dcOffset - len - 1
                   /\ dcBlock' = dcBlock + 1
                   /\ dcPhase' = "walk"
              ELSE /\ dcPhase' = "done"
                   /\ UNCHANGED <<dcBlock, dcOffset>>
    /\ dcOut' = (dcOut \/ ~InBlockLength(dcBlock))
    /\ UNCHANGED <<dcSpan, dcBlocksNum, dcBlockLength, dcTbSize, dcIdx>>

---------------------------------------------------------------------------
(***************************************************************************)
(* decompress_pairs: from the offset in the block to the value *)
(***************************************************************************)

\* The number of symbols of a table, and of symbols in a block.
MaxSyms == 3
MaxStream == 2

\* sr == 0xFFF: the symbol is a leaf and its left field holds a value.
LeafMark == 4095

Syms == 0..(MaxSyms - 1)

LeafValues == {0, 1}

IsLeaf(bt, s) == bt[s].right = LeafMark

\* Every symbol of bt expands into leaves in at most `fuel` levels: the
\* tree is acyclic.
RECURSIVE Expands(_, _, _)
Expands(bt, s, fuel) ==
    IF IsLeaf(bt, s) THEN TRUE
    ELSE IF fuel = 0 THEN FALSE
    ELSE Expands(bt, bt[s].left, fuel - 1) /\ Expands(bt, bt[s].right, fuel - 1)

Btrees ==
    {bt \in [Syms -> [left : LeafValues, right : {LeafMark}] \cup [left : Syms, right : Syms]] :
         \A s \in Syms : Expands(bt, s, MaxSyms)}

\* set_symlen(d, s, visited) on an acyclic tree; the result is a uint8_t.
RECURSIVE SetSymlen(_, _)
SetSymlen(bt, s) ==
    IF IsLeaf(bt, s) THEN 0
    ELSE (SetSymlen(bt, bt[s].left) + SetSymlen(bt, bt[s].right) + 1) % 256

\* The values a symbol, and a sequence of symbols, stand for.
RECURSIVE Expansion(_, _)
Expansion(bt, s) ==
    IF IsLeaf(bt, s) THEN <<bt[s].left>>
    ELSE Expansion(bt, bt[s].left) \o Expansion(bt, bt[s].right)

RECURSIVE StreamValues(_, _)
StreamValues(bt, stream) ==
    IF stream = <<>> THEN <<>>
    ELSE Expansion(bt, Head(stream)) \o StreamValues(bt, Tail(stream))

\* if (offset < d->symlen[sym] + 1)
WithinSymbol_Strict(offset, len) == offset < len

WithinSymbol(offset, len) == offset < len + 1

\* One pass of the loop over the symbols of the block: the next symbol is
\* decoded; the loop ends there when the offset falls within the values it
\* stands for, and the offset is moved past them otherwise.
HuffmanStep ==
    /\ dcHuff.phase = "huffman"
    /\ dcHuff.pos <= Len(dcBook.stream)
    /\ \E sym \in {dcBook.stream[dcHuff.pos]} :
          dcHuff' = IF WithinSymbol(dcHuff.offset, dcBook.symlen[sym])
                    THEN [dcHuff EXCEPT !.sym = sym, !.phase = "expand"]
                    ELSE [dcHuff EXCEPT !.sym = sym, !.pos = @ + 1,
                                        !.offset = @ - (dcBook.symlen[sym] + 1)]
    /\ UNCHANGED dcBook

\* One pass of while (d->symlen[sym]): into the left or the right child.
ExpandStep ==
    /\ dcHuff.phase = "expand"
    /\ dcBook.symlen[dcHuff.sym] # 0
    /\ \E left \in {dcBook.btree[dcHuff.sym].left} :
          dcHuff' = IF WithinSymbol(dcHuff.offset, dcBook.symlen[left])
                    THEN [dcHuff EXCEPT !.sym = left]
                    ELSE [dcHuff EXCEPT !.sym = dcBook.btree[dcHuff.sym].right,
                                        !.offset = @ - (dcBook.symlen[left] + 1)]
    /\ UNCHANGED dcBook

\* return d->btree[sym].get<LR::Left>()
ReturnLeaf ==
    /\ dcHuff.phase = "expand"
    /\ dcBook.symlen[dcHuff.sym] = 0
    /\ dcHuff' = [dcHuff EXCEPT !.phase = "returned",
                                !.ret = dcBook.btree[dcHuff.sym].left]
    /\ UNCHANGED dcBook

---------------------------------------------------------------------------
(* Specifications *)

\* Calls of root_probe and root_probe_wdl on the positions of a tree, with
\* won, drawn and lost leaves and one material whose files fail.
RootValues == {-2, 0, 2}

InitRoot ==
    /\ InitPositions(RootValues, TbStates, {FALSE})
    /\ InitTable /\ InitThreads
    /\ fileState = "good"
    /\ antiSwap = FALSE
    /\ active = {}
    /\ NoCodec

NextRoot ==
    \/ \E p \in Positions, k \in {"dtz", "wdl"} : RootStart(p, k)
    \/ \E c \in Positions, draw \in BOOLEAN : RootMove(c, draw)
    \/ RootDone

SpecRoot == InitRoot /\ [][NextRoot]_vars

\* The catalog at init time: any sequence of add calls.
\* The keys whose home bucket is one of the last three: the ones that
\* collide, displace each other and overflow within MaxTables tables.
HashKeys == {k \in Keys : HomeBucket(k) >= Size - 3}

InitHash ==
    /\ InitCatalog
    /\ keyPool = HashKeys
    /\ InitTable /\ InitThreads
    /\ fileState = "good"
    /\ antiSwap = FALSE
    /\ active = {}
    /\ NoPositions
    /\ NoCodec

NextHash == InitAdd

SpecHash == InitHash /\ [][NextHash]_vars

\* The catalog Tablebases::init leaves when it has found one table.
OneTableCatalog ==
    /\ hashTable = Insert(Insert(ClearedHashTable, 1, 1, 1).ht, 2, 1, 1).ht
    /\ wdlTable = <<[key |-> 1, key2 |-> 2, pieceCount |-> 3]>>
    /\ MaxCardinality = 3
    /\ aborted = FALSE
    /\ initDone = TRUE
    /\ tbPaths = DefaultPaths

\* mapped() on one table of the catalog, called by every thread, for every
\* state of the table's file.
InitMap ==
    /\ OneTableCatalog
    /\ keyPool = {}
    /\ InitTable /\ InitThreads
    /\ fileState \in FileStates
    /\ antiSwap \in BOOLEAN
    /\ active = Threads
    /\ NoPositions
    /\ NoCodec

NextMap == \E t \in Threads : MappedStep(t)

SpecMap == InitMap /\ [][NextMap]_vars

\* Tablebases::init returns: the probing threads may start.
FinishInit ==
    /\ ~aborted /\ ~initDone
    /\ initDone' = TRUE
    /\ UNCHANGED <<hashTable, wdlTable, MaxCardinality, keyPool, tbPaths, aborted, tableVars,
                   threadVars, countVars, ghostVars, probeVars>>

\* The keys whose home bucket is one of the last two: the ones that can
\* overflow the table.
BootKeys == {k \in Keys : HomeBucket(k) >= Size - 2}

\* The life of the process: init fills the catalog, then one thread probes
\* the first table.
InitBoot ==
    /\ InitCatalog
    /\ keyPool = BootKeys
    /\ InitTable /\ InitThreads
    /\ fileState \in FileStates
    /\ antiSwap = FALSE
    /\ active = {1}
    /\ NoPositions
    /\ NoCodec

NextBoot ==
    \/ InitAdd
    \/ FinishInit
    \/ \E t \in Threads : MappedStep(t)

SpecBoot == InitBoot /\ [][NextBoot]_vars

\* Probes of positions whose tables hold their true values, with at most
\* one table missing or unmappable.
InitProbe ==
    /\ InitPositions(ClassValues, TbStates, {FALSE})
    /\ InitTable /\ InitThreads
    /\ fileState = "good"
    /\ antiSwap = FALSE
    /\ active = {}
    /\ NoCodec

NextProbe ==
    \/ \E p \in Positions : ProbeWdl(p)
    \/ \E p \in Positions : ProbeDtz(p)

SpecProbe == InitProbe /\ [][NextProbe]_vars

\* Probes of positions whose tables are all there, with true values on
\* both sides of the 50-move edge and tables that count plies or moves.
InitValid ==
    /\ InitPositions(EdgeValues, {}, BOOLEAN)
    /\ InitTable /\ InitThreads
    /\ fileState = "good"
    /\ antiSwap = FALSE
    /\ active = {}
    /\ NoCodec

SpecValid == InitValid /\ [][NextProbe]_vars

\* The positions of the material K, N against K with white the stronger
\* side, either side to move, each encoded, mirrored and encoded again; and
\* the entries of the two sub-tables, each set up on the board and encoded.
InitIndex ==
    /\ OneTableCatalog
    /\ keyPool = {}
    /\ InitTable /\ InitThreads
    /\ fileState = "good"
    /\ antiSwap = FALSE
    /\ active = {}
    /\ NoPositions
    /\ NoDecoding /\ NoPairs /\ NoLeadGroup
    /\ encIdx = -1
    /\ encStm = 0
    /\ encPrev = [idx |-> -1, stm |-> 0]
    /\ encSide \in {0, 1}
    /\ \/ /\ encPhase = "input"
          /\ encSlot = -1
          /\ \E sq \in [1..3 -> Squares] :
                 /\ encBoard = BoardOf(sq, 0)
                 /\ LegalPosition(encBoard, encSide)
       \/ /\ encPhase = "slot"
          /\ encSlot \in 0..(TbSize - 1)
          /\ encBoard = {}

IndexStep(A) ==
    /\ A
    /\ UNCHANGED <<catalogVars, aborted, tableVars, threadVars, countVars, ghostVars,
                   treeVars, fileVars, lastWdl, lastDtz, rootVars, decVars, pairVars, lead,
                   lazyVars>>

NextIndex ==
    \/ IndexStep(Encode)
    \/ IndexStep(EncodeMirror)
    \/ IndexStep(Generate)

SpecIndex == InitIndex /\ [][NextIndex]_vars

\* decompress_pairs on every index of every well-formed sub-table of up to
\* MaxBlocks entries of blockLength[].
InitDecompress ==
    /\ OneTableCatalog
    /\ keyPool = {}
    /\ InitTable /\ InitThreads
    /\ fileState = "good"
    /\ antiSwap = FALSE
    /\ active = {}
    /\ NoPositions
    /\ NoEncoding /\ NoPairs /\ NoLeadGroup
    /\ dcPhase = "seek"
    /\ dcSpan \in Spans
    /\ \E n \in 1..MaxBlocks : dcBlockLength \in [1..n -> 0..MaxBlockLen]
    /\ dcBlocksNum \in 1..MaxBlocks
    /\ dcTbSize \in 1..(MaxBlocks * (MaxBlockLen + 1))
    /\ WellFormed(dcBlockLength, dcBlocksNum, dcTbSize, dcSpan)
    /\ dcIdx \in 0..(dcTbSize - 1)
    /\ dcBlock = 0
    /\ dcOffset = 0
    /\ dcOut = FALSE

DecompressStep(A) ==
    /\ A
    /\ UNCHANGED <<catalogVars, aborted, tableVars, threadVars, countVars, ghostVars,
                   treeVars, fileVars, lastWdl, lastDtz, rootVars, encVars, pairVars, lead,
                   lazyVars>>

NextDecompress ==
    \/ DecompressStep(DecompressSeek)
    \/ DecompressStep(WalkBack)
    \/ DecompressStep(WalkForward)

SpecDecompress == InitDecompress /\ [][NextDecompress]_vars

\* Tablebases::init called again and again with any of the paths, and
\* probes between the calls.
InitValues == {-2, 2}

InitReinit ==
    /\ InitPositions(InitValues, {"absent"}, {FALSE})
    /\ InitTable /\ InitThreads
    /\ fileState = "good"
    /\ antiSwap = FALSE
    /\ active = {}
    /\ NoCodec

NextReinit ==
    \/ \E paths \in PathValues : TablebasesInit(paths)
    \/ \E p \in Positions : ProbeWdl(p)
    \/ \E p \in Positions : ProbeDtz(p)

SpecReinit == InitReinit /\ [][NextReinit]_vars

\* Probes of positions whose tables are all there and carry any STM flag,
\* also for a material with pawns and both sides alike.
StmValues == {-2, 2}

InitStm ==
    /\ InitPositionsOf(StmValues, {}, {FALSE}, TRUE)
    /\ InitTable /\ InitThreads
    /\ fileState = "good"
    /\ antiSwap = FALSE
    /\ active = {}
    /\ NoCodec

SpecStm == InitStm /\ [][NextProbe]_vars

\* Calls of probe_table on positions without pawns, between calls of
\* Tablebases::init with one path or another; at most one material has a
\* file missing or not mappable.
LazyValues == {2}

InitLazy ==
    /\ InitPositions(LazyValues, TbStates, {FALSE})
    /\ ~hasPawns /\ ~symmetric /\ ~dontCare /\ flagStm = 0
    /\ InitTable /\ InitThreads
    /\ fileState = "good"
    /\ antiSwap = FALSE
    /\ active = {}
    /\ NoCodec

NextLazy ==
    \/ \E paths \in PathValues : TablebasesInit(paths)
    \/ \E type \in {"WDL", "DTZ"}, p \in Positions : ProbeTableCall(type, p)

SpecLazy == InitLazy /\ [][NextLazy]_vars

\* decompress_pairs from the start of a block: every acyclic tree of
\* MaxSyms symbols with the lengths set_symlen gives them, every block of up
\* to MaxStream symbols and every offset of a value of the block.
InitExpand ==
    /\ OneTableCatalog
    /\ keyPool = {}
    /\ InitTable /\ InitThreads
    /\ fileState = "good"
    /\ antiSwap = FALSE
    /\ active = {}
    /\ NoPositions
    /\ NoEncoding /\ NoDecoding /\ NoLeadGroup
    /\ \E bt \in Btrees, n \in 1..MaxStream :
          \E stream \in [1..n -> Syms] :
              /\ dcBook = [btree |-> bt, symlen |-> [s \in Syms |-> SetSymlen(bt, s)],
                           stream |-> stream]
              /\ \E offset \in 0..(Len(StreamValues(bt, stream)) - 1) :
                     dcHuff = [phase |-> "huffman", offset |-> offset, start |-> offset,
                               pos |-> 1, sym |-> 0, ret |-> 0]

ExpandFrame(A) ==
    /\ A
    /\ UNCHANGED <<catalogVars, aborted, tableVars, threadVars, countVars, ghostVars,
                   treeVars, fileVars, lastWdl, lastDtz, rootVars, encVars, decVars, lead,
                   lazyVars>>

NextExpand ==
    \/ ExpandFrame(HuffmanStep)
    \/ ExpandFrame(ExpandStep)
    \/ ExpandFrame(ReturnLeaf)

SpecExpand == InitExpand /\ [][NextExpand]_vars

---------------------------------------------------------------------------
(***************************************************************************)
(* set_groups and do_probe_table: the leading group of a table without *)
(* pawns that has exactly two unique pieces *)
(***************************************************************************)

\* The variants whose entry of WdlSuffixes[] is a suffix: Tablebases::init
\* adds tables for these only.
TableVariants ==
    {"CHESS", "ANTI", "ATOMIC", "TWOKINGS", "GIVEAWAY", "SUICIDE", "TWOKINGSSYMMETRIC"}

\* main_variant(v): a sub-variant stands for its main variant.
MainVariant(v) ==
    CASE v \in {"GIVEAWAY", "SUICIDE"} -> "ANTI"
      [] v = "TWOKINGSSYMMETRIC"       -> "TWOKINGS"
      [] OTHER                         -> v

\* The two factors set_groups has for a leading group of two unique pieces.
FactorKK == 462

FactorConnected == 518

\* set_groups: idx *= (e.variant == CHESS_VARIANT) ? 462 : 518
LeadFactor2(v) == IF v = "CHESS" THEN FactorKK ELSE FactorConnected

\* do_probe_table: connectedKings, true of the atomic table and of the
\* tables whose main variant is antichess.
ConnectedKings(v) == v = "ATOMIC" \/ MainVariant(v) = "ANTI"

\* Tablebases::init, the loops that fill MapKK[][]: for the first king on
\* the square MapA1D1D4 numbers i (b1 for 0) and the second on s, whether
\* the pair gets a code in the loop, and whether it is kept for the end.
KKSquare(i) ==
    CHOOSE s1 \in 0..27 : MapA1D1D4[s1] = i /\ (i # 0 \/ s1 = 1)

KKLegal(i, s) ==
    /\ s # KKSquare(i) /\ ~KingStep(KKSquare(i), s)
    /\ ~(OffA1H8(KKSquare(i)) = 0 /\ OffA1H8(s) > 0)

KKBothOnDiagonal(i, s) ==
    KKLegal(i, s) /\ OffA1H8(KKSquare(i)) = 0 /\ OffA1H8(s) = 0

KKInLoop(i, s) == KKLegal(i, s) /\ ~KKBothOnDiagonal(i, s)

KKPairs == (0..9) \X Squares

KKBefore(q, i, s) == q[1] < i \/ (q[1] = i /\ q[2] < s)

\* MapKK[][]: the codes of the loop in the order of the loop, then those of
\* the pairs with both kings on the diagonal; every other entry 0.
MapKK ==
    [i \in 0..9 |-> [s \in Squares |->
        IF KKInLoop(i, s)
        THEN Cardinality({q \in KKPairs : KKInLoop(q[1], q[2]) /\ KKBefore(q, i, s)})
        ELSE IF KKBothOnDiagonal(i, s)
        THEN Cardinality({q \in KKPairs : KKInLoop(q[1], q[2])})
             + Cardinality({q \in KKPairs :
                               KKBothOnDiagonal(q[1], q[2]) /\ KKBefore(q, i, s)})
        ELSE 0]]

\* do_probe_table, the index of two unique pieces when the kings may touch.
LeadIndexConnected(sq) ==
    LET adjust == B(sq[2] > sq[1])
    IN  IF OffA1H8(sq[1]) # 0
        THEN MapA1D1D4[sq[1]] * 63 + (sq[2] - adjust)
        ELSE IF OffA1H8(sq[2]) # 0
        THEN 6 * 63 + RankOf(sq[1]) * 28 + MapB1H1H7[sq[2]]
        ELSE 6 * 63 + 4 * 28 + RankOf(sq[1]) * 7 + (RankOf(sq[2]) - adjust)

\* idx = MapKK[MapA1D1D4[squares[0]]][squares[1]]
LeadIndexKK(sq) == MapKK[MapA1D1D4[sq[1]]][sq[2]]

\* The two unique pieces of a position of the table: on two squares, and
\* two kings that may not touch are apart.
LeadPlacements(v) ==
    {sq \in Squares \X Squares :
        /\ sq[1] # sq[2]
        /\ MainVariant(v) \in {"CHESS", "TWOKINGS"} => ~KingStep(sq[1], sq[2])}

\* set_groups is run on the table when it is mapped.
SetGroups2 ==
    /\ lead.phase = "mapped"
    /\ lead' = [lead EXCEPT !.phase = "grouped", !.factor = LeadFactor2(lead.variant)]

\* do_probe_table flips the squares and encodes the leading group.
EncodeLead2 ==
    /\ lead.phase = "grouped"
    /\ \E sq \in {Normalize(lead.squares, 2)} :
          lead' = [lead EXCEPT
                     !.phase   = "encoded",
                     !.squares = sq,
                     !.branch  = IF ConnectedKings(lead.variant)
                                 THEN "connectedKings" ELSE "MapKK",
                     !.idx     = IF ConnectedKings(lead.variant)
                                 THEN LeadIndexConnected(sq) ELSE LeadIndexKK(sq)]

\* Tables of any variant that has table files, with the two unique pieces
\* of a position on any squares.
InitLead ==
    /\ OneTableCatalog
    /\ keyPool = {}
    /\ InitTable /\ InitThreads
    /\ fileState = "good"
    /\ antiSwap = FALSE
    /\ active = {}
    /\ NoPositions
    /\ NoEncoding /\ NoDecoding /\ NoPairs
    /\ \E v \in TableVariants : \E sq \in LeadPlacements(v) :
          lead = [phase |-> "mapped", variant |-> v, squares |-> sq,
                  factor |-> 0, branch |-> "none", idx |-> 0]

LeadFrame(A) ==
    /\ A
    /\ UNCHANGED <<catalogVars, aborted, tableVars, threadVars, countVars, ghostVars,
                   treeVars, fileVars, lastWdl, lastDtz, rootVars, encVars, decVars,
                   pairVars, lazyVars>>

NextLead ==
    \/ LeadFrame(SetGroups2)
    \/ LeadFrame(EncodeLead2)

SpecLead == InitLead /\ [][NextLead]_vars

\* The probes and the root probes of the engine on the same positions, with
\* tables there or one material without files.
FrameValues == {-2, 2}

InitFrame ==
    /\ InitPositions(FrameValues, {"absent"}, {FALSE})
    /\ ~dontCare /\ ~symmetric
    /\ InitTable /\ InitThreads
    /\ fileState = "good"
    /\ antiSwap = FALSE
    /\ active = {}
    /\ NoCodec

NextFrame == NextProbe \/ NextRoot

SpecFrame == InitFrame /\ [][NextFrame]_vars

---------------------------------------------------------------------------
(* Claims about the catalog, checked under SpecHash *)

TBTypes == {"WDL", "DTZ"}

\* Some bucket holds an entry of key k.
Stored(k) == \E b \in DOMAIN hashTable : hashTable[b].wdl # NullTable /\ hashTable[b].key = k

\* C3: after any sequence of add calls that does not abort, get(k) returns
\* the table inserted under k for every inserted key (key and key2 of each
\* table), and null for every key that was never inserted.
C3_GetReturnsInserted ==
    ~aborted =>
        \A k \in Keys : \A type \in TBTypes :
            Get(hashTable, k, type) = IF k \in InsertedKeys THEN TableOf(k) ELSE NullTable

\* C3 happens: the catalog is full of tables, one entry was pushed away from
\* its home bucket, and a key that was never inserted homes on a used bucket.
C3_Witness ==
    /\ ~aborted
    /\ Len(wdlTable) = MaxTables
    /\ \E b \in DOMAIN hashTable :
           hashTable[b].wdl # NullTable /\ HomeBucket(hashTable[b].key) < b
    /\ \E k \in Keys \ InsertedKeys : hashTable[HomeBucket(k)].wdl # NullTable

\* C4: after every insert the last bucket (index Size) is empty, every
\* stored entry sits at or after its home bucket with no empty bucket in
\* between; every inserted key is stored unless the process has aborted, and
\* it has aborted only when an insert found every bucket from the home of
\* the entry it carried up to index Size - 1 used.
C4_TailEmptyAndProbeChain ==
    /\ hashTable[Size + Overflow - 1] = EmptyEntry
    /\ \A b \in DOMAIN hashTable :
           hashTable[b].wdl # NullTable =>
               /\ HomeBucket(hashTable[b].key) <= b
               /\ \A c \in HomeBucket(hashTable[b].key)..b : hashTable[c].wdl # NullTable
    /\ ~aborted => \A k \in InsertedKeys : Stored(k)
    /\ aborted =>
           \E k \in InsertedKeys :
               /\ ~Stored(k)
               /\ \A c \in HomeBucket(k)..(Size - 1) : hashTable[c].wdl # NullTable

\* C4 happens: an insert ran off the table and aborted after it had pushed
\* another entry away from its home bucket.
C4_Witness ==
    /\ aborted
    /\ \E b \in DOMAIN hashTable :
           hashTable[b].wdl # NullTable /\ HomeBucket(hashTable[b].key) < b

---------------------------------------------------------------------------
(* Claims about mapped(), checked under SpecMap *)

SlowSection == {"open", "map", "magic", "set", "store"}

\* C1: whatever the interleaving of the threads that call mapped() on the
\* table, the file is mapped at most once, its PairsData is parsed at most
\* once, and all calls return the same base address.
C1_MappedOnce ==
    /\ mapCount <= 1
    /\ setCount <= 1
    /\ Cardinality(returned) <= 1
    /\ \A t \in Threads : pc[t] = "done" => ret[t] = baseAddress

\* C1 happens: two threads raced for the table; one mapped and parsed it,
\* another found it ready only under the lock, and both hold the address.
C1_Witness ==
    /\ fileState = "good"
    /\ mapCount = 1 /\ setCount = 1
    /\ \E t \in Threads : path[t] = "slow" /\ pc[t] = "done"
    /\ \E t \in Threads : path[t] = "recheck" /\ pc[t] = "done"
    /\ \A t \in Threads : pc[t] = "done" => ret[t] = MappedAddress

\* C2: once ready is true it stays true and is not stored again, and no
\* step writes baseAddress, mapping, the key fields or the PairsData of a
\* table whose ready flag is true.
C2_ReadyOnceThenFrozen ==
    /\ [](ready => \A t \in Threads : pc[t] \notin SlowSection)
    /\ [][ready => (ready' /\ UNCHANGED <<baseAddress, mapping, pairsData, ekeys>>)]_vars

\* C2 happens: a thread read ready = true on the fast path after another
\* thread had mapped, parsed and (in the antichess build) swapped the keys.
C2_Witness ==
    /\ ready
    /\ pairsData = "parsed"
    /\ antiSwap /\ ekeys = <<2, 1>>
    /\ \E t \in Threads : path[t] = "fast" /\ pc[t] = "done" /\ pstate[t] = "OK"

\* C6: a file whose magic differs is unmapped, the base address is set to
\* null and no data is returned to parse; the process goes on, and every
\* probe of the table, the one that mapped it included, ends with FAIL.
C6_BadMagicIsMissing ==
    fileState = "badmagic" =>
        /\ ~aborted
        /\ setCount = 0 /\ pairsData = "unset"
        /\ mapCount <= 1
        /\ \A t \in Threads : pc[t] = "done" => ret[t] = Null /\ pstate[t] = "FAIL"
        /\ (\A t \in Threads : pc[t] # "magic") => baseAddress = Null /\ unmapCount = mapCount

\* C6 happens: the file was mapped and unmapped, the probe that did it
\* failed, and so did a later probe, on the fast path.
C6_Witness ==
    /\ fileState = "badmagic"
    /\ mapCount = 1 /\ unmapCount = 1
    /\ \E t \in Threads : path[t] = "slow" /\ pc[t] = "done" /\ pstate[t] = "FAIL"
    /\ \E t \in Threads : path[t] = "fast" /\ pc[t] = "done" /\ pstate[t] = "FAIL"

---------------------------------------------------------------------------
(* Claims about the fatal failures, checked under SpecBoot *)

HashOverflow == \E k \in InsertedKeys : ~Stored(k)

\* C7 as the spec states it: mapping a file whose magic differs aborts the
\* process.
C7_BadMagicAborts ==
    (fileState = "badmagic" /\ mapCount >= 1 /\ \A t \in Threads : pc[t] # "magic")
        => aborted

\* C7, amended: the process aborts exactly on a hash-table overflow at init,
\* or in TBFile::map on a bad file size or an mmap failure; a magic mismatch
\* does not abort, the probe that mapped the file ends with FAIL.
C7_FatalFailures ==
    /\ HashOverflow => aborted
    /\ fileState \in {"badsize", "mmapfail"} =>
           /\ ~ready
           /\ \A t \in Threads : pc[t] \notin {"magic", "set", "store", "return", "done"}
    /\ aborted =>
           \/ HashOverflow
           \/ fileState \in {"badsize", "mmapfail"} /\ \E t \in Threads : pc[t] = "map"
    /\ fileState = "badmagic" =>
           \A t \in Threads : pc[t] = "done" => pstate[t] = "FAIL"

\* C7 happens: the probe of a file with a wrong magic has returned FAIL in
\* a process that did not abort.
C7_Witness ==
    /\ fileState = "badmagic"
    /\ mapCount = 1 /\ unmapCount = 1
    /\ ~aborted
    /\ \E t \in Threads : pc[t] = "done" /\ pstate[t] = "FAIL"

---------------------------------------------------------------------------
(* Claims about the probes, checked under SpecProbe and SpecValid *)

Abs(v) == IF v < 0 THEN -v ELSE v

NoCaptureAt(p) == \A c \in LegalMoves(p) : ~IsCapture(c)

NoPawnMoveAt(p) == \A c \in LegalMoves(p) : ~IsPawnMove(c)

\* p and the positions captures lead to from it
RECURSIVE CaptureReach(_, _)
CaptureReach(p, c) ==
    IF c > NPos THEN {p}
    ELSE IF parent[c] = p /\ IsCapture(c)
    THEN CaptureReach(c, c + 1) \cup CaptureReach(p, c + 1)
    ELSE CaptureReach(p, c + 1)

WdlTablePresent(p) ==
    PieceCount(p) = 2 \/ tbState[Material(p)] \notin {"absent", "nomap"}

\* probe_dtz of p reads the DTZ table and finds the other side stored.
TakesChangeStm(p) ==
    LET s == Search(p, TRUE, "OK")
    IN /\ s.result \notin {"FAIL", "ZEROING_BEST_MOVE"}
       /\ s.value # WDLDraw
       /\ ProbeTable("DTZ", p, s.result, s.value).result = "CHANGE_STM"

\* The probed position has three pieces or more, no capture, and a material
\* whose WDL file did not exist at init.
ProbedMissing ==
    /\ lastWdl.pos # 0
    /\ tbState[Material(lastWdl.pos)] = "absent"
    /\ PieceCount(lastWdl.pos) > 2
    /\ NoCaptureAt(lastWdl.pos)

\* C5 as the spec states it: no catalog entry is made for a material without
\* WDL file, and probe_wdl and probe_dtz of a position of that material with
\* no capture both end with FAIL.
C5_MissingAlwaysFails ==
    ProbedMissing =>
        /\ lastWdl.result = "FAIL"
        /\ lastDtz.pos # 0 => lastDtz.result = "FAIL"

\* C5, amended: no catalog entry is made for a material without WDL file;
\* probe_wdl of a position of that material with no capture ends with FAIL,
\* and so does probe_dtz when the position has no legal pawn move either.
C5_MissingFails ==
    /\ \A m \in Materials :
           tbState[m] = "absent" =>
               /\ \A type \in TBTypes : Get(hashTable, m, type) = NullTable
               /\ \A i \in 1..Len(wdlTable) : wdlTable[i].key # m
    /\ ProbedMissing =>
           /\ lastWdl.result = "FAIL"
           /\ (lastDtz.pos # 0 /\ NoPawnMoveAt(lastDtz.pos)) => lastDtz.result = "FAIL"

\* C5 happens: both probes of a position with quiet moves only, whose
\* material has no file while another material has one, have failed.
C5_Witness ==
    /\ ProbedMissing
    /\ lastDtz.pos # 0
    /\ LegalMoves(lastDtz.pos) # {}
    /\ Len(wdlTable) >= 1
    /\ lastWdl.result = "FAIL" /\ lastDtz.result = "FAIL"

\* The tables of the probed position and of the positions captures lead to
\* are there, and the position has no more pieces than the largest table.
ProbedPresent ==
    /\ lastWdl.pos # 0
    /\ PieceCount(lastWdl.pos) <= MaxCardinality
    /\ \A q \in CaptureReach(lastWdl.pos, lastWdl.pos + 1) : WdlTablePresent(q)

\* C8 as the spec states it: with the tables present probe_wdl ends with
\* state OK and a value from WDLLoss to WDLWin.
C8_PresentEndsOk ==
    ProbedPresent => lastWdl.result = "OK" /\ lastWdl.value \in WDLScores

\* C8, amended: with the tables present probe_wdl does not fail; it ends
\* with state OK or, only where the position has a capture,
\* ZEROING_BEST_MOVE, and a value from WDLLoss to WDLWin.
C8_PresentNeverFails ==
    ProbedPresent =>
        /\ lastWdl.result \in {"OK", "ZEROING_BEST_MOVE"}
        /\ lastWdl.result = "ZEROING_BEST_MOVE" => ~NoCaptureAt(lastWdl.pos)
        /\ lastWdl.value \in WDLScores

\* C8 happens: a probe went through two captures down to the two kings,
\* which have no table, and came back with a draw found by the captures.
C8_Witness ==
    /\ ProbedPresent
    /\ \E q \in CaptureReach(lastWdl.pos, lastWdl.pos + 1) : PieceCount(q) = 2
    /\ PieceCount(lastWdl.pos) = RootPieces
    /\ lastWdl.result = "ZEROING_BEST_MOVE"
    /\ lastWdl.value = WDLDraw

BothProbed ==
    /\ lastDtz.pos # 0
    /\ lastWdl.result # "FAIL"
    /\ lastDtz.result # "FAIL"

\* C9: where neither probe_wdl nor probe_dtz of a position fails, the value
\* of probe_dtz has the sign of the value of probe_wdl, on every branch of
\* probe_dtz.
C9_SignAgrees ==
    BothProbed => SignOf(lastDtz.value) = SignOf(lastWdl.value)

\* C9 happens: probe_dtz found the other side stored and took the minimum
\* over moves of both signs of a won position.
C9_Witness ==
    /\ BothProbed
    /\ TakesChangeStm(lastDtz.pos)
    /\ lastDtz.value > 1
    /\ \E c \in LegalMoves(lastDtz.pos) : MoveDtz(c) < 0
    /\ \E c \in LegalMoves(lastDtz.pos) : MoveDtz(c) > 0

\* C10: the magnitude of probe_dtz is at most 101 where the WDL value is a
\* win or a loss, and it is above 100 only where the WDL value is a cursed
\* win or a blessed loss.
C10_DtzMagnitude ==
    BothProbed =>
        /\ lastWdl.value \in {WDLWin, WDLLoss} => Abs(lastDtz.value) \in 0..101
        /\ Abs(lastDtz.value) > 100 => lastWdl.value \in {WDLCursedWin, WDLBlessedLoss}

\* C10 happens: a win on the 50-move edge read from a table that counts
\* plies came back as 100.
C10_Witness ==
    /\ BothProbed
    /\ winPlies
    /\ lastWdl.value = WDLWin
    /\ lastDtz.result = "OK"
    /\ lastDtz.value = 100


Mated(p) == LegalMoves(p) = {} /\ ~open[p] /\ inCheck[p]

\* C11: probe_dtz of a position whose side to move is mated returns -1 when
\* it does not fail; where probe_dtz takes the CHANGE_STM branch its value is
\* -1 exactly when the position has no legal move.
C11_MateIsMinusOne ==
    (lastDtz.pos # 0 /\ lastDtz.result # "FAIL") =>
        /\ Mated(lastDtz.pos) => lastDtz.value = -1
        /\ TakesChangeStm(lastDtz.pos) =>
               (lastDtz.value = -1 <=> LegalMoves(lastDtz.pos) = {})

\* C11 happens: probe_dtz of a mated position found the other side stored,
\* searched no move and returned -1.
C11_Witness ==
    /\ lastDtz.pos # 0
    /\ Mated(lastDtz.pos)
    /\ TakesChangeStm(lastDtz.pos)
    /\ lastDtz.result = "CHANGE_STM"
    /\ lastDtz.value = -1


\* C12: probe_wdl of a position with two pieces returns a draw and probe_dtz
\* returns 0, both with state OK, whatever the catalog holds and whatever
\* the state of the files, an empty catalog included.
C12_KvKIsDraw ==
    (lastWdl.pos # 0 /\ PieceCount(lastWdl.pos) = 2) =>
        /\ Get(hashTable, MaterialKey(lastWdl.pos), "WDL") = NullTable
        /\ lastWdl.value = WDLDraw /\ lastWdl.result = "OK"
        /\ lastDtz.pos # 0 => (lastDtz.value = 0 /\ lastDtz.result = "OK")

\* C12 happens: both probes of the two kings were made with an empty
\* catalog.
C12_Witness ==
    /\ lastDtz.pos # 0
    /\ PieceCount(lastDtz.pos) = 2
    /\ Len(wdlTable) = 0 /\ MaxCardinality = 0
    /\ lastWdl.value = WDLDraw /\ lastDtz.value = 0


\* C13: root_probe and root_probe_wdl return false once a probe made for a
\* root move has ended with FAIL, in whatever order the root moves come and
\* whatever the probes of the other moves gave.
C13_RootFailsClosed ==
    rootFailed => (rootRet = "false" /\ rootResult = "FAIL")

\* C13 happens: root_probe ranked one root move and returned false on the
\* failed probe of another.
C13_Witness ==
    /\ rootKind = "dtz"
    /\ rootFailed
    /\ rootRet = "false"
    /\ \E c \in Positions : rootDtz[c].ranked


\* probe_dtz of p stops on the result of search<true>: a zeroing move is
\* best and the value is not a draw.
StopsAtZeroing(p) ==
    LET s == Search(p, TRUE, "OK")
    IN s.result = "ZEROING_BEST_MOVE" /\ s.value # WDLDraw

\* C14: where search<true> ends with ZEROING_BEST_MOVE and a value that is
\* no draw, probe_dtz returns dtz_before_zeroing of that value - 1, -1, 101
\* or -101 by the WDL class - with state ZEROING_BEST_MOVE, also where the
\* DTZ file of the position is missing; a position with a winning capture
\* gives 1 unless a probe failed.
C14_ZeroingBestMove ==
    lastDtz.pos # 0 =>
        /\ StopsAtZeroing(lastDtz.pos) =>
               /\ lastDtz.result = "ZEROING_BEST_MOVE"
               /\ LET wdl == Search(lastDtz.pos, TRUE, "OK").value
                  IN /\ lastDtz.value = DtzBeforeZeroing(wdl)
                     /\ wdl = WDLWin => lastDtz.value = 1
                     /\ wdl = WDLLoss => lastDtz.value = -1
                     /\ wdl = WDLCursedWin => lastDtz.value = 101
                     /\ wdl = WDLBlessedLoss => lastDtz.value = -101
                     /\ lastDtz.value \in {1, -1, 101, -101}
        /\ (/\ lastDtz.result # "FAIL"
            /\ \E c \in LegalMoves(lastDtz.pos) : IsCapture(c) /\ TrueWdl(c) = WDLLoss)
           => (lastDtz.value = 1 /\ lastDtz.result = "ZEROING_BEST_MOVE")

\* C14 happens: a position with a winning capture, whose DTZ file is missing,
\* gave 1 with state ZEROING_BEST_MOVE.
C14_Witness ==
    /\ lastDtz.pos # 0
    /\ tbState[Material(lastDtz.pos)] = "nodtz"
    /\ PieceCount(lastDtz.pos) > 2
    /\ \E c \in LegalMoves(lastDtz.pos) : IsCapture(c) /\ TrueWdl(c) = WDLLoss
    /\ \E c \in LegalMoves(lastDtz.pos) : ~IsZeroing(c)
    /\ lastDtz.value = 1
    /\ lastDtz.result = "ZEROING_BEST_MOVE"

\* The board is a symmetric image of the placement sq of the pieces of the
\* sub-table stm, the colours exchanged or not.
SymmetricImage(board, stm, sq) ==
    \E g \in Sym, flip \in BOOLEAN :
        \A i \in 1..3 :
            [sq |-> g[sq[i]], pc |-> FlipColor(DPieces(stm)[i], flip)] \in board

C16_BlockFound ==
    /\ dcPhase = "done" =>
           /\ dcBlock \in 0..(dcBlocksNum - 1)
           /\ 0 <= dcOffset /\ dcOffset <= dcBlockLength[dcBlock + 1]
           /\ ValuesIn(dcBlockLength, dcBlock) + dcOffset = dcIdx
    /\ dcPhase \in {"walk", "done"} => (~dcOut /\ InBlockLength(dcBlock))

\* C16 happens: the sparse entry of the index lay in the padding after the
\* last block, and the walk went back over more than one block to the
\* block of the index.
C16_Witness ==
    /\ dcPhase = "done"
    /\ SparseIndex(dcBlockLength, dcSpan, dcIdx \div dcSpan).block >= dcBlocksNum
    /\ dcBlock < dcBlocksNum - 1
    /\ dcOffset = dcBlockLength[dcBlock + 1]

\* The catalog of a process in which init has not been called.
FreshCatalog ==
    [hashTable |-> ClearedHashTable, wdlTable |-> <<>>,
     MaxCardinality |-> 0, aborted |-> FALSE]

\* search<false> comes to the table of p itself: p has a legal move that is
\* not a capture, or no legal move. search<true>: a legal move that is
\* neither a capture nor a pawn move, or none.
WdlReachesTable(p) ==
    open[p] \/ TotalCount(p) = 0 \/ \E c \in LegalMoves(p) : ~IsCapture(c)
DtzReachesTable(p) ==
    open[p] \/ TotalCount(p) = 0
        \/ \E c \in LegalMoves(p) : ~IsCapture(c) /\ ~IsPawnMove(c)

ProbedWdlAbove2 == lastWdl.pos # 0 /\ PieceCount(lastWdl.pos) > 2
ProbedDtzAbove2 == lastDtz.pos # 0 /\ PieceCount(lastDtz.pos) > 2

\* C18, amended: after init with an empty path or "<empty>", whatever an
\* earlier init had loaded, the catalog is empty and MaxCardinality is 0,
\* and a probe of a position with more than two pieces ends with FAIL when
\* the position has a legal move the search does not make (or no legal
\* move), so that its own table is looked up; and the catalog after
\* init(paths) is the one a first init(paths) builds.
C18_EmptyPathDisables ==
    /\ (initDone /\ tbPaths \in EmptyPaths) =>
           /\ hashTable = ClearedHashTable
           /\ wdlTable = <<>>
           /\ MaxCardinality = 0
           /\ (ProbedWdlAbove2 /\ WdlReachesTable(lastWdl.pos)) => lastWdl.result = "FAIL"
           /\ (ProbedDtzAbove2 /\ DtzReachesTable(lastDtz.pos)) => lastDtz.result = "FAIL"
    /\ (initDone /\ ~aborted) => Catalog = InitFrom(FreshCatalog, tbPaths)

\* C18 happens: init had loaded the table of a material, init was called
\* again with an empty path, and a probe of a position of that material
\* failed.
C18_Witness ==
    /\ initDone /\ tbPaths \in EmptyPaths
    /\ ProbedWdlAbove2
    /\ tbState[Material(lastWdl.pos)] = "ok"
    /\ WdlReachesTable(lastWdl.pos)
    /\ lastWdl.result = "FAIL"
    /\ hashTable = ClearedHashTable

\* C18 as stated: after init with an empty path every probe of a position
\* with more than two pieces ends with FAIL.
C18_EveryProbeFails ==
    (initDone /\ tbPaths \in EmptyPaths) =>
        /\ ProbedWdlAbove2 => lastWdl.result = "FAIL"
        /\ ProbedDtzAbove2 => lastDtz.result = "FAIL"

\* The largest piece count among the materials whose WDL file is found
\* under paths, 0 when there is none.
LargestFound(paths) ==
    LET S == {0} \cup {PieceCount(m) : m \in {x \in Materials :
                           paths \notin EmptyPaths /\ FileFound(paths, x)}}
    IN  CHOOSE v \in S : \A w \in S : w <= v

\* C19: after init MaxCardinality is the largest piece count among the
\* enumerated materials whose WDL file was found, 0 when none was found; it
\* is at most TBPIECES, and no probe changes it.
C19_MaxCardinality ==
    /\ [](initDone => (MaxCardinality = LargestFound(tbPaths) /\ MaxCardinality <= TBPIECES))
    /\ [][((\E p \in Positions : ProbeWdl(p)) \/ (\E p \in Positions : ProbeDtz(p)))
              => MaxCardinality' = MaxCardinality]_vars

\* C19 happens: init found the files of a three-piece material but not
\* those of the four-piece material of the root, and a position was probed.
C19_Witness ==
    /\ initDone /\ tbPaths = "B"
    /\ PieceCount(1) = 4 /\ tbState[1] = "ok"
    /\ MaxCardinality = 3
    /\ lastWdl.pos # 0 /\ lastDtz.pos # 0

\* C20, amended: no step of a probe changes the hash table, the list of
\* tables or MaxCardinality; the key and key2 of a table change only in
\* the antichess build, exchanged once by the thread that maps the table
\* for the first time; besides them a probe writes only the ready flag,
\* the base address, the mapping and the PairsData, and only of a table
\* that is not ready yet.
C20_CatalogFrozen ==
    [][/\ UNCHANGED <<hashTable, wdlTable, MaxCardinality, tbPaths>>
       /\ ekeys' # ekeys =>
              (antiSwap /\ ~ready /\ setCount = 0 /\ ekeys' = <<ekeys[2], ekeys[1]>>)
       /\ <<baseAddress, mapping, pairsData>>' # <<baseAddress, mapping, pairsData>> =>
              (~ready /\ mapCount + setCount <= 1)]_vars

\* C20 happens: a probe has mapped and parsed the table and exchanged its
\* keys, and the hash table still leads from both keys to the table.
C20_Witness ==
    /\ ready /\ baseAddress # Null /\ pairsData = "parsed"
    /\ ekeys = <<2, 1>>
    /\ \A k \in {1, 2} : Get(hashTable, k, "WDL") = 1
    /\ Len(wdlTable) = 1 /\ wdlTable[1].pieceCount = 3

\* C20 as stated: key and key2 of a table keep their init-time values
\* through every probe.
C20_KeysFrozen ==
    [][UNCHANGED <<hashTable, wdlTable, MaxCardinality, ekeys>>]_vars

---------------------------------------------------------------------------
(* Claims about the order of search, checked under SpecProbe *)

Captures(p) == {c \in LegalMoves(p) : IsCapture(c)}

ZeroingMoves(p) == {c \in LegalMoves(p) : IsZeroing(c)}

\* The loop of search returns right after the move to c: the probe of c
\* failed, or the move wins.
StopsSearch(c) ==
    \E r \in {ProbeWdlOf(c)} : r.result = "FAIL" \/ -r.value >= WDLWin

\* Every legal move of p is a capture, and there is one.
OnlyCaptures(p) == Captures(p) # {} /\ Cardinality(Captures(p)) = TotalCount(p)

\* What search<false> did on p, as s tells it: it played the captures in
\* the order of the move list up to the first one that stops the loop and no
\* other move, and it looked p up in its table exactly when no capture
\* stopped the loop and some legal move is not a capture or none exists.
CapturesThenLookup(p, s) ==
    /\ s.searched = {c \in Captures(p) : \A b \in Captures(p) : b < c => ~StopsSearch(b)}
    /\ s.lookup <=> /\ \A c \in Captures(p) : ~StopsSearch(c)
                    /\ ~OnlyCaptures(p)
    /\ s.lookup => s.searched = Captures(p)

\* C21, amended: probe_wdl plays the legal captures of the position, in
\* move-list order up to the first one whose probe fails or that wins, and
\* no pawn move that is not a capture; it looks the position up in its table
\* only after every capture was played, and not at all when a capture
\* stopped the loop or every legal move is a capture.
C21_CapturesThenLookup ==
    lastWdl.pos # 0 =>
        CapturesThenLookup(lastWdl.pos, Search(lastWdl.pos, FALSE, "OK"))

\* C21 happens: the probed position has a capture and a pawn move that is
\* not one; probe_wdl played the capture only and then read the table.
C21_Witness ==
    /\ lastWdl.pos # 0
    /\ Captures(lastWdl.pos) # {}
    /\ ZeroingMoves(lastWdl.pos) # Captures(lastWdl.pos)
    /\ \E s \in {Search(lastWdl.pos, FALSE, "OK")} :
           s.lookup /\ s.searched = Captures(lastWdl.pos)
    /\ lastWdl.result = "OK"

\* C21 as stated: probe_wdl plays every capture and every pawn move of the
\* position and then looks the position up in its table.
C21_ExploresEveryZeroing ==
    lastWdl.pos # 0 =>
        \E s \in {Search(lastWdl.pos, FALSE, "OK")} :
            s.searched = ZeroingMoves(lastWdl.pos) /\ s.lookup

---------------------------------------------------------------------------
(* Claims about the side a DTZ table stores, checked under SpecStm *)

\* probe_table<type> of p finds the table and its file and calls
\* do_probe_table.
TableFound(type, p) ==
    /\ PieceCount(p) > 2
    /\ \E entry \in {Get(hashTable, MaterialKey(p), type)} :
           entry # NullTable /\ Mapped(entry, type) # Null

\* probe_dtz of p comes to probe_table<DTZ>, s being what search<true>
\* returned.
DtzTableProbed(p, s) ==
    /\ s.result \notin {"FAIL", "ZEROING_BEST_MOVE"}
    /\ s.value # WDLDraw
    /\ TableFound("DTZ", p)

\* The STM flag of the table differs from the side to move after the
\* colours were switched, and the table is not one without pawns and with
\* both sides alike.
OtherSideStored(p, entry) ==
    /\ flagStm # TableStm(p, entry)
    /\ ~(wdlTable[entry].key = wdlTable[entry].key2 /\ ~hasPawns)

DoProbeDtzTable(p, s) ==
    DoProbeTable("DTZ", p, Get(hashTable, MaterialKey(p), "DTZ"), s.value, s.result)

StmRule(p, r) ==
    /\ r.result = "CHANGE_STM" <=> OtherSideStored(p, Get(hashTable, MaterialKey(p), "DTZ"))
    /\ r.result = "CHANGE_STM" => ~r.read
    /\ r.result # "CHANGE_STM" => r.read

DtzStmRule(p, s) == DtzTableProbed(p, s) => StmRule(p, DoProbeDtzTable(p, s))

WdlNeverChangeStm(p, s) ==
    /\ s.result # "CHANGE_STM"
    /\ (s.lookup /\ TableFound("WDL", p)) =>
           \E r \in {DoProbeTable("WDL", p, Get(hashTable, MaterialKey(p), "WDL"),
                                  WDLDraw, "OK")} :
               r.result # "CHANGE_STM" /\ r.read

---------------------------------------------------------------------------
(* Claims about the lazy mapping of the catalog, checked under SpecLazy *)

Unmapped(e, type) == ~lazy[e][type].ready /\ lazy[e][type].baseAddress = Null

AllUnmapped == \A e \in TableSlots, type \in TBTypes : Unmapped(e, type)

InitReturns == \E paths \in PathValues : TablebasesInit(paths)

\* The step maps the file of table e: its base address becomes non-null.
MapsFile(e, type) ==
    /\ lazy'[e][type].baseAddress # Null
    /\ lazy'[e][type].baseAddress # lazy[e][type].baseAddress

\* The step is the first call of probe_table that finds table e.
FirstLookup(e, type) ==
    /\ lookup'.entry = e /\ lookup'.type = type
    /\ lookup'.path = "slow"
    /\ ~lazy[e][type].tried

\* C23: when init returns, every table of the catalog has ready false and a
\* null base address; a file is mapped only by the first probe_table call
\* that finds its table, and a table no probe has found stays unmapped.
C23_InitMapsNothing ==
    /\ [](\A e \in TableSlots, type \in TBTypes :
              ~lazy[e][type].tried => Unmapped(e, type))
    /\ [][/\ InitReturns => AllUnmapped'
          /\ \A e \in TableSlots, type \in TBTypes :
                 MapsFile(e, type) => FirstLookup(e, type)]_vars

\* C23 happens: after an init with another path the catalog has two tables;
\* the WDL file of the first was mapped by one probe and found mapped by a
\* second, and no other table was touched.
C23_Witness ==
    /\ tbPaths = "B"
    /\ Len(wdlTable) = 2
    /\ lazy[1]["WDL"].ready /\ lazy[1]["WDL"].baseAddress # Null
    /\ lookup.entry = 1 /\ lookup.type = "WDL" /\ lookup.path = "fast"
    /\ Unmapped(1, "DTZ") /\ Unmapped(2, "WDL") /\ Unmapped(2, "DTZ")
    /\ ~lazy[2]["WDL"].tried

---------------------------------------------------------------------------
(* Claims about what search returns, checked under SpecProbe *)

Max(S) == CHOOSE v \in S : \A w \in S : v >= w

\* The moves search<CheckZeroingMoves> plays when nothing stops its loop.
Played(p, checkZeroingMoves) ==
    {c \in LegalMoves(p) : IsCapture(c) \/ (checkZeroingMoves /\ IsPawnMove(c))}

\* What the move to c is worth to the side that plays it.
ChildValue(c) == -ProbeWdlOf(c).value

\* bestValue after the moves of S: it starts from WDLLoss.
BestOf(S) == Max({ChildValue(c) : c \in S} \cup {WDLLoss})

\* The value probe_table<WDL> gives for p.
TableValue(p) == ProbeTable("WDL", p, "OK", WDLDraw).value

\* The three ways search returns when no probe has failed, s being what it
\* returned for p.
SearchCases(p, checkZeroingMoves, s) ==
    \E played \in {Played(p, checkZeroingMoves)} :
        IF \E c \in played : ChildValue(c) >= WDLWin
        THEN /\ s.value = BestOf(s.searched) /\ s.value >= WDLWin
             /\ s.result = "ZEROING_BEST_MOVE"
             /\ ~s.lookup
             /\ \A c \in played \ s.searched : \E b \in s.searched :
                    b < c /\ ChildValue(b) >= WDLWin
        ELSE IF played # {} /\ Cardinality(played) = TotalCount(p)
        THEN /\ s.value = BestOf(played)
             /\ s.searched = played
             /\ ~s.lookup
        ELSE /\ s.lookup
             /\ s.searched = played
             /\ IF TableValue(p) > BestOf(played)
                THEN s.value = TableValue(p) /\ s.result = "OK"
                ELSE /\ s.value = BestOf(played)
                     /\ s.result = IF BestOf(played) > WDLDraw
                                   THEN "ZEROING_BEST_MOVE" ELSE "OK"

SearchReturns(p, checkZeroingMoves, s) ==
    s.result # "FAIL" => SearchCases(p, checkZeroingMoves, s)

\* C24: when no probe fails, search returns the best move value with
\* ZEROING_BEST_MOVE as soon as a played move wins; the best move value,
\* without a table lookup, when it played a move and every legal move was
\* played; otherwise the table value with OK when that is greater than the
\* best move value, else the best move value with ZEROING_BEST_MOVE when it
\* is above a draw and with OK when not.
C24_SearchReturns ==
    /\ lastWdl.pos # 0 =>
           /\ SearchReturns(lastWdl.pos, FALSE, Search(lastWdl.pos, FALSE, "OK"))
           /\ lastWdl.value = Search(lastWdl.pos, FALSE, "OK").value
    /\ lastDtz.pos # 0 =>
           SearchReturns(lastDtz.pos, TRUE, Search(lastDtz.pos, TRUE, "OK"))

\* C24 happens: search<true> played a capture and a pawn move of a position
\* that has a third move, none of them winning, read the table and found a
\* cursed win there which is greater than what the moves give.
C24_Witness ==
    /\ lastDtz.pos # 0
    /\ \E s \in {Search(lastDtz.pos, TRUE, "OK")} :
           /\ Cardinality(s.searched) >= 1
           /\ \E c \in s.searched : IsPawnMove(c)
           /\ s.lookup
           /\ s.result = "OK"
           /\ s.value > BestOf(s.searched)
    /\ lastWdl.result = "OK"

---------------------------------------------------------------------------
(* Claims about the expansion of a symbol, checked under SpecExpand *)

SymlenNow == dcBook.symlen[dcHuff.sym]

\* C25: from the symbol the Huffman loop selects to the end of the
\* expansion 0 <= offset <= symlen[sym]; every step of the expansion goes
\* to a symbol with a smaller symlen; the expansion ends at a leaf with
\* offset 0, and the value returned is that leaf's left field.
C25_ExpansionInvariant ==
    /\ [](dcHuff.phase \in {"expand", "returned"} =>
              0 <= dcHuff.offset /\ dcHuff.offset <= SymlenNow)
    /\ [](dcHuff.phase = "returned" =>
              /\ SymlenNow = 0 /\ dcHuff.offset = 0
              /\ dcHuff.ret = dcBook.btree[dcHuff.sym].left
              /\ dcHuff.ret = StreamValues(dcBook.btree, dcBook.stream)[dcHuff.start + 1])
    /\ [][(dcHuff.phase = "expand" /\ dcHuff'.phase = "expand") =>
              dcBook.symlen[dcHuff'.sym] < SymlenNow]_vars

\* C25 happens: the value was in the second symbol of the block, a pair of
\* pairs, and was found two levels down on the right side of it.
C25_Witness ==
    /\ dcHuff.phase = "returned"
    /\ dcHuff.pos = 2
    /\ dcBook.symlen[dcBook.stream[2]] >= 2
    /\ dcHuff.start - dcBook.symlen[dcBook.stream[1]] - 1 >= 2
    /\ dcHuff.ret = 1

---------------------------------------------------------------------------
(* Claims about the position the probes hand back, checked under SpecFrame *)

\* C26: probe_wdl, probe_dtz, root_probe and root_probe_wdl leave the board
\* at the position they were called on, on every return and after every
\* pass over a root move: each do_move has had its undo_move.
C26_PositionRestored ==
    /\ lastWdl.pos # 0 => lastWdl.at = lastWdl.pos
    /\ lastDtz.pos # 0 => lastDtz.at = lastDtz.pos
    /\ rootKind # "none" => rootAt = rootPos

\* C26 happens: probe_wdl returned from the loop on a winning capture,
\* probe_dtz has returned, and a root probe returned false on a failed probe
\* after it had ranked another move.
C26_Witness ==
    /\ lastWdl.pos # 0
    /\ lastWdl.result = "ZEROING_BEST_MOVE" /\ lastWdl.value = WDLWin
    /\ lastDtz.pos # 0
    /\ rootRet = "false" /\ rootFailed
    /\ \E c \in Positions : rootDtz[c].ranked
    /\ rootAt = rootPos

---------------------------------------------------------------------------
(* Claims about a mapping that failed, checked under SpecLazy *)

\* The step is a call of probe_table that finds a table mapped() has tried
\* before.
LaterLookup(e, type) ==
    /\ lookup'.entry = e /\ lookup'.type = type
    /\ ~InitReturns
    /\ lazy[e][type].tried

\* C27: mapped() sets ready also when the file could not be opened or had a
\* wrong magic, the base address staying null; until the next init every
\* later probe of that table takes the fast path, fails, and neither opens
\* nor maps the file again.
C27_FailureRemembered ==
    /\ [](\A e \in TableSlots, type \in TBTypes :
              lazy[e][type].tried => lazy[e][type].ready)
    /\ [](lookup.path # "again")
    /\ [][\A e \in TableSlots, type \in TBTypes :
              LaterLookup(e, type) =>
                  /\ lookup'.path = "fast"
                  /\ lazy' = lazy
                  /\ lazy[e][type].baseAddress = Null => lookup'.result = "FAIL"]_vars

\* C27 happens: the DTZ file of a table could not be mapped, a later probe of
\* it has failed on the fast path, and the WDL file of the same table is
\* mapped.
C27_Witness ==
    /\ lookup.entry # NullTable
    /\ lookup.type = "DTZ"
    /\ lookup.path = "fast"
    /\ lookup.result = "FAIL"
    /\ lazy[lookup.entry]["DTZ"].ready
    /\ lazy[lookup.entry]["DTZ"].baseAddress = Null
    /\ lazy[lookup.entry]["WDL"].baseAddress # Null

---------------------------------------------------------------------------
(* Claims about the depth of the recursion, checked under SpecStm *)

\* How many calls of search<false> are nested below the one on p: the
\* longest chain of the moves the calls play.
RECURSIVE SearchLevels(_)
SearchLevels(p) ==
    LET played == Search(p, FALSE, "OK").searched
    IN IF played = {} THEN 0
       ELSE Max({SearchLevels(c) + 1 : c \in played})

\* probe_dtz of p gets as far as probe_table<DTZ> and the table is there.
ReachesDtzTable(p) ==
    LET s == Search(p, TRUE, "OK")
    IN /\ s.result \notin {"FAIL", "ZEROING_BEST_MOVE"}
       /\ s.value # WDLDraw
       /\ ProbeTable("DTZ", p, s.result, s.value).result # "FAIL"

\* The table of the probed material stores both sides alike and has pawns.
AlikeWithPawns == symmetric /\ hasPawns

\* C28 as the specification states it: search<false> plays captures only
\* and nests no deeper than the position has pieces, and a call of probe_dtz
\* made from the CHANGE_STM loop never takes that loop itself, so that no
\* call of probe_dtz has more than one level of probe_dtz below it,
\* whatever the STM flag of the table is.
C28_OneLevelDeep ==
    /\ lastWdl.pos # 0 =>
           /\ Search(lastWdl.pos, FALSE, "OK").searched \subseteq Captures(lastWdl.pos)
           /\ SearchLevels(lastWdl.pos) <= PieceCount(lastWdl.pos)
    /\ lastDtz.pos # 0 => ProbeDtzOf(lastDtz.pos).levels <= 1

\* What holds of the code: the bound of search<false>, and one level of
\* probe_dtz unless the table stores both sides alike, has pawns and carries
\* the STM flag; then every position of the material takes the CHANGE_STM
\* loop, and probe_dtz follows every line of non-zeroing moves to its end.
C28_OneLevelUnlessAlikeWithPawns ==
    /\ lastWdl.pos # 0 =>
           /\ Search(lastWdl.pos, FALSE, "OK").searched \subseteq Captures(lastWdl.pos)
           /\ SearchLevels(lastWdl.pos) <= PieceCount(lastWdl.pos)
    /\ (lastDtz.pos # 0 /\ ~(AlikeWithPawns /\ flagStm = 1)) =>
           ProbeDtzOf(lastDtz.pos).levels <= 1
    /\ (lastDtz.pos # 0 /\ AlikeWithPawns /\ flagStm = 1
           /\ TakesChangeStm(lastDtz.pos)) =>
           \A c \in LegalMoves(lastDtz.pos) :
               (~IsZeroing(c) /\ ReachesDtzTable(c)) => TakesChangeStm(c)

\* C28 fails: probe_dtz of a position took the CHANGE_STM loop, and the call
\* it made for a non-zeroing move took the loop again and called probe_dtz a
\* third time.
C28_Witness ==
    /\ lastDtz.pos # 0
    /\ AlikeWithPawns /\ flagStm = 1
    /\ TakesChangeStm(lastDtz.pos)
    /\ ProbeDtzOf(lastDtz.pos).levels = 2
    /\ lastDtz.result # "FAIL"

---------------------------------------------------------------------------
(* Claims about the factor of a leading group of two, checked under SpecLead *)

\* C29 as the specification states it: the factor set_groups took is 518
\* exactly when do_probe_table encodes the two pieces by the connected-kings
\* formula and 462 exactly when it reads MapKK, and the index of the leading
\* group is below the factor.
C29_FactorOfTheBranch ==
    lead.phase = "encoded" =>
        /\ lead.factor = FactorConnected <=> lead.branch = "connectedKings"
        /\ lead.factor = FactorKK <=> lead.branch = "MapKK"
        /\ lead.idx >= 0 /\ lead.idx < lead.factor

\* What holds of the code: the index is below the factor, and below 462 on
\* the MapKK branch; the factor is the one of the branch for the standard,
\* the atomic and the antichess tables, and 518 with the MapKK branch for
\* the tables of the two-kings variants.
C29_IndexBelowFactor ==
    lead.phase = "encoded" =>
        /\ lead.idx >= 0 /\ lead.idx < lead.factor
        /\ lead.branch = "MapKK" => lead.idx < FactorKK
        /\ lead.branch = "connectedKings" => lead.factor = FactorConnected
        /\ (lead.branch = "MapKK" /\ lead.factor # FactorKK) <=>
               MainVariant(lead.variant) = "TWOKINGS"

\* C29 fails: a table of the two-kings variant, encoded by MapKK, its
\* factor 518; the second king is above the diagonal before the flips.
C29_Witness ==
    /\ lead.phase = "encoded"
    /\ lead.variant = "TWOKINGS"
    /\ lead.branch = "MapKK"
    /\ lead.factor = FactorConnected
    /\ lead.idx = FactorKK - 1

---------------------------------------------------------------------------
(* Claims about the return of the root probes, checked under SpecRoot *)

EveryRootMoveRanked == \A c \in LegalMoves(rootPos) : rootDtz[c].ranked

NoRootMoveRanked == \A c \in Positions : ~rootDtz[c].ranked

\* C30 as the specification states it: root_probe and root_probe_wdl return
\* false only when a probe made for a root move has failed, and when they
\* return true every root move has its rank and score, also when root moves
\* were settled as draws without a probe.
C30_TrueUnlessProbeFails ==
    rootKind # "none" =>
        /\ rootRet = "false" => rootFailed
        /\ rootRet = "true" => EveryRootMoveRanked

\* What holds of the code: true is returned with every root move ranked and
\* no probe failed; false is returned without a failed probe only in the
\* first pass of the loop, for a root move settled as a draw without a
\* probe, where the test reads the local result before anything wrote it.
C30_FalseOnFailOrUnsetResult ==
    rootKind # "none" =>
        /\ rootRet = "true" => (EveryRootMoveRanked /\ ~rootFailed)
        /\ (rootRet = "false" /\ ~rootFailed) =>
               (NoRootMoveRanked /\ rootResult = "FAIL" /\ rootTodo = LegalMoves(rootPos))

\* C30 fails: root_probe_wdl returned false on its first root move, which
\* it took for a draw, with no probe made and none failed; the files of the
\* position are all there.
C30_Witness ==
    /\ rootKind = "wdl"
    /\ rootRet = "false"
    /\ ~rootFailed
    /\ NoRootMoveRanked
    /\ \A p \in Positions : tbState[p] = "ok"

====
